---- MODULE Spec2Model ----
(***************************************************************************)
(* Verification model of the command-based bot (src/bots/command_bot5.py): *)
(* the navigator bfs_to_adjacent, the commands, the recipe planner and the *)
(* executor BotPlayer.play_turn; of the movement helpers, the order choice *)
(* and the order assignment of src/bots/claude_bot-tune.py; and of the     *)
(* order choice of src/bots/codex_vian.py.                                 *)
(***************************************************************************)
EXTENDS Integers, Sequences, FiniteSets, TLC

VARIABLES nav, world, bot, cmd, log, env

vars == <<nav, world, bot, cmd, log, env>>

(***************************************************************************)
(* Bounds of the navigator specification.                                  *)
(***************************************************************************)
NavW == 3
NavH == 3
MaxWalls == 2
MaxOcc == 1

(***************************************************************************)
(* Arithmetic helpers.                                                     *)
(***************************************************************************)
Abs(n) == IF n < 0 THEN 0 - n ELSE n

Max2(a, b) == IF a >= b THEN a ELSE b

\* max(abs(x - gx), abs(y - gy))
Cheb(p, q) == Max2(Abs(p[1] - q[1]), Abs(p[2] - q[2]))

\* "Chebyshev distance <= 1"
Adjacent(p, q) == Cheb(p, q) <= 1

(***************************************************************************)
(* bfs_to_adjacent.  A grid g is [w, h, walk, occ]: width, height, the set *)
(* of walkable cells and the set of cells occupied by the team's bots.     *)
(* The Python None is NoMove.                                              *)
(***************************************************************************)
NoMove == <<0, 0>>

\* for dx in [-1, 0, 1]: for dy in [-1, 0, 1]: skip (0, 0)
Dirs == << <<-1, -1>>, <<-1, 0>>, <<-1, 1>>, <<0, -1>>, <<0, 1>>,
           <<1, -1>>, <<1, 0>>, <<1, 1>> >>

DirSet == {Dirs[i] : i \in 1..Len(Dirs)}

InBounds(g, p) == p[1] >= 0 /\ p[1] < g.w /\ p[2] >= 0 /\ p[2] < g.h

\* the last step of the path instead of the first
PathFirstLast(first, d) == d

\* path + [(dx, dy)], of which only path[0] is ever returned
PathFirst(first, d) == IF first = NoMove THEN d ELSE first

\* the walkable test left out
CanEnterThroughWalls(g, start, visited, n) ==
    /\ n \notin visited
    /\ InBounds(g, n)
    /\ ~(n \in g.occ /\ n # start)

\* the occupied test left out
CanEnterThroughBots(g, start, visited, n) ==
    /\ n \notin visited
    /\ InBounds(g, n)
    /\ n \in g.walk

\* the four `continue` tests of the neighbour loop
CanEnter(g, start, visited, n) ==
    /\ n \notin visited
    /\ InBounds(g, n)
    /\ ~(n \in g.occ /\ n # start)
    /\ n \in g.walk

RECURSIVE BfsExpand(_, _, _, _, _, _)
\* the neighbour loop of one dequeued cell; returns the queue and visited
BfsExpand(g, start, cell, i, queue, visited) ==
    IF i > Len(Dirs) THEN [queue |-> queue, visited |-> visited]
    ELSE LET d == Dirs[i]
             n == <<cell.p[1] + d[1], cell.p[2] + d[2]>>
         IN  IF CanEnter(g, start, visited, n)
             THEN BfsExpand(g, start, cell, i + 1,
                            Append(queue, [p |-> n, first |-> PathFirst(cell.first, d)]),
                            visited \cup {n})
             ELSE BfsExpand(g, start, cell, i + 1, queue, visited)

RECURSIVE BfsLoop(_, _, _, _, _)
\* while queue: popleft, goal test, expand
BfsLoop(g, start, goal, queue, visited) ==
    IF queue = <<>> THEN NoMove
    ELSE LET cell == Head(queue)
         IN  IF Adjacent(cell.p, goal) THEN cell.first
             ELSE LET r == BfsExpand(g, start, cell, 1, Tail(queue), visited)
                  IN  BfsLoop(g, start, goal, r.queue, r.visited)

bfs_to_adjacent(g, start, goal) ==
    IF Adjacent(start, goal) THEN NoMove
    ELSE BfsLoop(g, start, goal, <<[p |-> start, first |-> NoMove]>>, {start})

(***************************************************************************)
(* Reference notions the navigator is judged against: the cells a bot can  *)
(* stand on, and the length of a shortest walkable path to a cell adjacent *)
(* to the goal.                                                            *)
(***************************************************************************)
Cells(g) == (0..(g.w - 1)) \X (0..(g.h - 1))

Free(g, start) == {p \in Cells(g) : p \in g.walk /\ (p \notin g.occ \/ p = start)}

Neigh(p) == {<<p[1] + d[1], p[2] + d[2]>> : d \in DirSet}

RECURSIVE Grow(_, _, _)
\* cells reachable from the frontier set `seen` by walkable steps
Grow(g, start, seen) ==
    LET more == {n \in Free(g, start) : \E p \in seen : n \in Neigh(p)} \ seen
    IN  IF more = {} THEN seen ELSE Grow(g, start, seen \cup more)

Reach(g, start) == Grow(g, start, {start})

PathExists(g, start, goal) == \E p \in Reach(g, start) : Adjacent(p, goal)

\* longer than any path on the grid
Unreachable == NavW * NavH

RECURSIVE DistFrom(_, _, _, _, _)
\* number of moves of a shortest walkable path from `seen` to adjacency
DistFrom(g, start, goal, seen, k) ==
    IF \E p \in seen : Adjacent(p, goal) THEN k
    ELSE LET more == {n \in Free(g, start) : \E p \in seen : n \in Neigh(p)} \ seen
         IN  IF more = {} THEN Unreachable
             ELSE DistFrom(g, start, goal, seen \cup more, k + 1)

PathDist(g, start, goal) == DistFrom(g, start, goal, {start}, 0)

(***************************************************************************)
(* The kitchen.  Food types, shop costs, the map and the effect of the     *)
(* action requests belong to the game engine (game_constants,              *)
(* robot_controller), which the bot only calls.                            *)
(***************************************************************************)
FoodNames == {"NOODLES", "ONIONS", "EGG", "MEAT"}

can_chop(name) == name \in {"ONIONS", "MEAT"}

can_cook(name) == name \in {"EGG", "MEAT"}

buy_cost(name) == CASE name = "NOODLES" -> 4
                    [] name = "ONIONS" -> 3
                    [] name = "EGG" -> 2
                    [] name = "MEAT" -> 8
                    [] OTHER -> 0

PlateCost == 2

\* an item: Food, Plate (foods: the names on it) or Pan (name: the food in it)
NoItem == [type |-> "None", name |-> "-", chopped |-> FALSE, stage |-> 0,
           foods |-> <<>>, dirty |-> FALSE]

FoodItem(name) == [NoItem EXCEPT !.type = "Food", !.name = name]

PlateItem == [NoItem EXCEPT !.type = "Plate"]

EmptyPan == [NoItem EXCEPT !.type = "Pan"]

\* the maps: the stations lie on row 0, the floor on row 1
Layouts == <<
    \* one shop, one counter, one submit tile
    <<"SHOP", "WALL", "COUNTER", "WALL", "SUBMIT">>,
    \* two counters, a cooker, a trash
    <<"SHOP", "COUNTER", "COUNTER", "COOKER", "TRASH", "SUBMIT">>,
    \* one counter and a box
    <<"SHOP", "COUNTER", "BOX", "COOKER", "TRASH", "SUBMIT">>,
    \* no counter
    <<"SHOP", "WALL", "COOKER", "TRASH", "SUBMIT">>,
    \* the cooker two walls away from the counters
    <<"SHOP", "COUNTER", "COUNTER", "WALL", "WALL", "COOKER", "TRASH", "SUBMIT">> >>

MapW(lay) == Len(Layouts[lay])

MapH == 2

MapCells(lay) == (0..(MapW(lay) - 1)) \X (0..(MapH - 1))

tile_name(lay, p) == IF p[2] = 0 THEN Layouts[lay][p[1] + 1] ELSE "FLOOR"

is_walkable(lay, p) == tile_name(lay, p) = "FLOOR"

Stations(lay) == {p \in MapCells(lay) : tile_name(lay, p) \notin {"FLOOR", "WALL"}}

\* a cooker comes with its pan
InitialItems(lay) ==
    [p \in Stations(lay) |-> IF tile_name(lay, p) = "COOKER" THEN EmptyPan ELSE NoItem]

\* tile.item, None on floor and walls
ItemAt(w, p) == IF p \in DOMAIN w.items THEN w.items[p] ELSE NoItem

\* controller.get_map + get_team_bot_ids/get_bot_state as bfs_to_adjacent reads them
GridOf(w) == [w |-> MapW(w.lay), h |-> MapH,
              walk |-> {p \in MapCells(w.lay) : is_walkable(w.lay, p)},
              occ |-> {w.pos}]

\* x-major, y-minor: the order of `for x in range(width): for y in range(height)`
ScanIdx(p) == p[1] * MapH + p[2]

First(S) == CHOOSE p \in S : \A q \in S : ScanIdx(p) <= ScanIdx(q)

NoLoc == <<-1, -1>>

(***************************************************************************)
(* The tile searches of the bot.                                           *)
(***************************************************************************)
TilesNamed(w, name) == {p \in MapCells(w.lay) : tile_name(w.lay, p) = name}

\* strict `dist < min_dist` during an x-major scan: nearest, first on ties
Closest(S, from) ==
    IF S = {} THEN NoLoc
    ELSE CHOOSE p \in S : \A q \in S :
             \/ Cheb(p, from) < Cheb(q, from)
             \/ Cheb(p, from) = Cheb(q, from) /\ ScanIdx(p) <= ScanIdx(q)

find_tile(w, name) ==
    IF TilesNamed(w, name) = {} THEN NoLoc ELSE First(TilesNamed(w, name))

find_closest_tile(w, name, from) == Closest(TilesNamed(w, name), from)

find_closest_empty_tile(w, name, from) ==
    Closest({p \in TilesNamed(w, name) : ItemAt(w, p) = NoItem}, from)

(***************************************************************************)
(* The action requests.  A request takes effect when the engine's rule for *)
(* it is met and the collaborator honours it; otherwise it is refused      *)
(* silently and the world is unchanged.  honor is the set of request kinds *)
(* the collaborator honours in the current tick.                           *)
(***************************************************************************)
Count(seq, x) == Cardinality({i \in 1..Len(seq) : seq[i] = x})

SameBag(s1, s2) == Len(s1) = Len(s2) /\ \A i \in 1..Len(s1) : Count(s1, s1[i]) = Count(s2, s1[i])

\* food is servable when it is chopped and cooked as its type requires
Prepared(f) == f.chopped = can_chop(f.name)
                  /\ f.stage = (IF can_cook(f.name) THEN 1 ELSE 0)

PlatedName(f) == IF Prepared(f) THEN f.name ELSE "SPOILED"

DoMove(w, d, honor) ==
    LET n == <<w.pos[1] + d[1], w.pos[2] + d[2]>>
    IN  IF "move" \in honor /\ n \in MapCells(w.lay) /\ is_walkable(w.lay, n)
        THEN [w EXCEPT !.pos = n] ELSE w

DoBuy(w, item, cost, loc, honor) ==
    IF /\ "buy" \in honor
       /\ Adjacent(w.pos, loc)
       /\ tile_name(w.lay, loc) = "SHOP"
       /\ w.holding = NoItem
       /\ w.money >= cost
    THEN [w EXCEPT !.holding = item, !.money = w.money - cost] ELSE w

DoPlace(w, loc, honor) ==
    IF ~("place" \in honor /\ Adjacent(w.pos, loc) /\ w.holding # NoItem /\ loc \in DOMAIN w.items)
    THEN w
    ELSE IF tile_name(w.lay, loc) \in {"COUNTER", "BOX"} /\ w.items[loc] = NoItem
    THEN [w EXCEPT !.items[loc] = w.holding, !.holding = NoItem]
    ELSE IF /\ tile_name(w.lay, loc) = "COOKER"
            /\ w.items[loc] = EmptyPan
            /\ w.holding.type = "Food"
    THEN [w EXCEPT !.items[loc] = [w.holding EXCEPT !.type = "Pan"], !.holding = NoItem]
    ELSE w

DoPickup(w, loc, honor) ==
    IF /\ "pickup" \in honor
       /\ Adjacent(w.pos, loc)
       /\ w.holding = NoItem
       /\ tile_name(w.lay, loc) \in {"COUNTER", "BOX"}
       /\ ItemAt(w, loc) # NoItem
    THEN [w EXCEPT !.holding = w.items[loc], !.items[loc] = NoItem] ELSE w

DoChop(w, loc, honor) ==
    IF /\ "chop" \in honor
       /\ Adjacent(w.pos, loc)
       /\ tile_name(w.lay, loc) = "COUNTER"
       /\ ItemAt(w, loc).type = "Food"
       /\ can_chop(ItemAt(w, loc).name)
    THEN [w EXCEPT !.items[loc].chopped = TRUE] ELSE w

DoTakeFromPan(w, loc, honor) ==
    IF /\ "take_from_pan" \in honor
       /\ Adjacent(w.pos, loc)
       /\ w.holding = NoItem
       /\ ItemAt(w, loc).type = "Pan"
       /\ ItemAt(w, loc).name # "-"
    THEN [w EXCEPT !.holding = [w.items[loc] EXCEPT !.type = "Food"],
                   !.items[loc] = EmptyPan]
    ELSE w

DoAddFoodToPlate(w, loc, honor) ==
    IF /\ "add_food_to_plate" \in honor
       /\ Adjacent(w.pos, loc)
       /\ w.holding.type = "Plate"
       /\ ~w.holding.dirty
       /\ ItemAt(w, loc).type = "Food"
    THEN [w EXCEPT !.holding.foods = Append(w.holding.foods, PlatedName(w.items[loc])),
                   !.items[loc] = NoItem]
    ELSE w

\* submit() matches the plate against the active orders
Matching(w) == {i \in 1..Len(w.orders) :
                   w.orders[i].is_active /\ SameBag(w.orders[i].required, w.holding.foods)}

DoSubmit(w, loc, honor) ==
    IF /\ "submit" \in honor
       /\ Adjacent(w.pos, loc)
       /\ tile_name(w.lay, loc) = "SUBMIT"
       /\ w.holding.type = "Plate"
       /\ Matching(w) # {}
    THEN LET i == CHOOSE i \in Matching(w) : \A j \in Matching(w) : i <= j
         IN  [w EXCEPT !.holding = NoItem,
                       !.money = w.money + w.orders[i].reward,
                       !.orders[i].is_active = FALSE,
                       !.orders[i].fulfilled = TRUE]
    ELSE w

\* a trashed plate comes back clean and empty and stays in hand
DoTrash(w, loc, honor) ==
    IF /\ "trash" \in honor
       /\ Adjacent(w.pos, loc)
       /\ tile_name(w.lay, loc) = "TRASH"
       /\ w.holding # NoItem
    THEN [w EXCEPT !.holding = IF w.holding.type = "Plate" THEN PlateItem ELSE NoItem]
    ELSE w

(***************************************************************************)
(* The command framework.  Only the current command of a plan is ever      *)
(* executed, so its progress state is kept in one record; a command that   *)
(* becomes current starts from NewCmd.  The result of one execute is the   *)
(* command's new state, the world after the request it issued (if any),    *)
(* the requests issued, and the cook stage it observed in the pan (-1 when *)
(* it did not look).                                                       *)
(***************************************************************************)
StuckLimit == 20

max_turns(kind) ==
    CASE kind \in {"BuyIngredient", "BuyPlate"} -> 30
      [] kind \in {"ChopIngredient", "PlaceOnCounter", "PickupPlateFromCounter"} -> 40
      [] kind = "AddFoodToPlate" -> 50
      [] kind = "FinishCooking" -> 80
      [] kind = "CookIngredient" -> 150
      [] OTHER -> 100

max_retries(kind) == IF kind = "PickupPlateFromCounter" THEN 3 ELSE 5

InitialState(kind) ==
    CASE kind \in {"ChopIngredient", "CookIngredient", "StartCooking", "AddFoodToPlate"}
             -> "navigating"
      [] kind = "FinishCooking" -> "waiting"
      [] OTHER -> "-"

\* Command.__init__ and the subclass constructors
NewCmd(kind) ==
    [turn_count |-> 0, last_state |-> <<>>, stuck_counter |-> 0,
     state |-> InitialState(kind), loc |-> NoLoc, retries |-> 0, failed |-> FALSE,
     buy_attempted |-> FALSE, food_burned |-> FALSE, submitted |-> FALSE,
     initial_food_count |-> -1]

\* is_stuck without the turn ceiling
is_stuck_no_ceiling(c, kind) ==
    \/ c.stuck_counter > StuckLimit
    \/ c.failed

is_stuck(c, kind) ==
    \/ c.turn_count > max_turns(kind)
    \/ c.stuck_counter > StuckLimit
    \/ c.failed

check_progress(c, current_state) ==
    [c EXCEPT !.stuck_counter = IF current_state = c.last_state
                                THEN c.stuck_counter + 1 ELSE 0,
              !.last_state = current_state]

Out(c, w) == [c |-> c, w |-> w, reqs |-> <<>>, seen |-> -1]

Req(c, w, kind) == [c |-> c, w |-> w, reqs |-> <<kind>>, seen |-> -1]

\* only a plate counts as a held item
HoldsPlateOnly(w) == w.holding.type = "Plate"

Holds(w) == w.holding # NoItem

\* next_move = bfs_to_adjacent(...); if next_move: controller.move(...)
Walk(c, w, loc, honor) ==
    LET m == bfs_to_adjacent(GridOf(w), w.pos, loc)
    IN  IF m # NoMove THEN Req(c, DoMove(w, m, honor), "move") ELSE Out(c, w)

CanWalk(w, loc) == bfs_to_adjacent(GridOf(w), w.pos, loc) # NoMove

\* BuyIngredientCommand.execute and BuyPlateCommand.execute
ExecBuy(c0, w, item, cost, honor) ==
    LET c1 == check_progress([c0 EXCEPT !.turn_count = c0.turn_count + 1],
                             <<w.pos, Holds(w)>>)
        shop == IF c1.loc = NoLoc THEN find_tile(w, "SHOP") ELSE c1.loc
        c == [c1 EXCEPT !.loc = shop]
    IN  IF Holds(w) THEN Out(c1, w)
        ELSE IF shop = NoLoc THEN Out(c1, w)
        ELSE IF Adjacent(w.pos, shop)
        THEN IF c.buy_attempted \/ w.money < cost THEN Out(c, w)
             ELSE Req([c EXCEPT !.buy_attempted = TRUE],
                      DoBuy(w, item, cost, shop, honor), "buy")
        ELSE Walk(c, w, shop, honor)

ExecBuyIngredient(c, q, w, honor) ==
    ExecBuy(c, w, FoodItem(q.food), buy_cost(q.food), honor)

ExecBuyPlate(c, q, w, honor) == ExecBuy(c, w, PlateItem, PlateCost, honor)

\* retries += 1; if retries > max_retries: state = "done"; failed = True
ChopRetry(c) ==
    LET r == c.retries + 1
    IN  IF r > max_retries("ChopIngredient")
        THEN [c EXCEPT !.retries = r, !.state = "done", !.failed = TRUE]
        ELSE [c EXCEPT !.retries = r]

\* the pickup issued in the same execute as the chop
ChopChoppingAndPickup(c, w, honor) ==
    IF Holds(w) THEN Out([c EXCEPT !.state = "placing"], w)
    ELSE IF ItemAt(w, c.loc).type # "Food" THEN Out([c EXCEPT !.state = "done"], w)
    ELSE IF ItemAt(w, c.loc).chopped THEN Out([c EXCEPT !.state = "picking_up"], w)
    ELSE LET w1 == DoPickup(DoChop(w, c.loc, honor), c.loc, honor)
         IN  [c |-> [c EXCEPT !.state = IF Holds(w1) THEN "done" ELSE "picking_up"],
              w |-> w1, reqs |-> <<"chop", "pickup">>, seen |-> -1]

\* ChopIngredientCommand.execute, state "chopping"
ChopChopping(c, w, honor) ==
    IF Holds(w) THEN Out([c EXCEPT !.state = "placing"], w)
    ELSE IF ItemAt(w, c.loc).type # "Food" THEN Out([c EXCEPT !.state = "done"], w)
    ELSE IF ItemAt(w, c.loc).chopped THEN Out([c EXCEPT !.state = "picking_up"], w)
    ELSE Req([c EXCEPT !.state = "picking_up"], DoChop(w, c.loc, honor), "chop")

ExecChopIngredient(c0, q, w, honor) ==
    LET c == check_progress([c0 EXCEPT !.turn_count = c0.turn_count + 1],
                            <<c0.state, w.pos, Holds(w)>>)
    IN  IF c.state \in {"navigating", "placing"} /\ ~Holds(w)
        THEN Out([c EXCEPT !.state = "done", !.failed = TRUE], w)
        ELSE IF c.state = "navigating"
        THEN LET refind == c.loc = NoLoc \/ c.retries > 0
                 loc == IF refind THEN find_closest_empty_tile(w, "COUNTER", w.pos)
                        ELSE c.loc
                 cl == [c EXCEPT !.loc = loc]
             IN  IF loc = NoLoc THEN Out(ChopRetry(cl), w)
                 ELSE IF Adjacent(w.pos, loc)
                 THEN IF ItemAt(w, loc) = NoItem
                      THEN Out([cl EXCEPT !.state = "placing"], w)
                      ELSE Out(ChopRetry([cl EXCEPT !.loc = NoLoc]), w)
                 ELSE IF CanWalk(w, loc) THEN Walk(cl, w, loc, honor)
                 ELSE Out([cl EXCEPT !.loc = NoLoc, !.retries = cl.retries + 1], w)
        ELSE IF c.state = "placing"
        THEN LET w1 == DoPlace(w, c.loc, honor)
             IN  IF ~Holds(w1) THEN Req([c EXCEPT !.state = "chopping"], w1, "place")
                 ELSE Req(ChopRetry([c EXCEPT !.state = "navigating", !.loc = NoLoc]),
                          w1, "place")
        ELSE IF c.state = "chopping" THEN ChopChopping(c, w, honor)
        ELSE IF c.state = "picking_up"
        THEN IF ItemAt(w, c.loc).type = "Food" /\ ItemAt(w, c.loc).chopped
             THEN LET w1 == DoPickup(w, c.loc, honor)
                  IN  IF Holds(w1) THEN Req([c EXCEPT !.state = "done"], w1, "pickup")
                      ELSE Req(ChopRetry(c), w1, "pickup")
             ELSE Out([c EXCEPT !.state = "done", !.failed = TRUE], w)
        ELSE Out(c, w)

\* the pan's food as the cooking commands read it: cooked_stage, or -1
\* when the tile holds no pan with food
PanStage(w, loc) ==
    IF ItemAt(w, loc).type = "Pan" /\ ItemAt(w, loc).name # "-"
    THEN ItemAt(w, loc).stage ELSE -1

IsPan(w, loc) == ItemAt(w, loc).type = "Pan"

Saw(r, stage) == [r EXCEPT !.seen = stage]

\* "navigating" of CookIngredientCommand and StartCookingCommand
CookNavigate(c, w, honor) ==
    LET loc == IF c.loc = NoLoc THEN find_closest_tile(w, "COOKER", w.pos) ELSE c.loc
        cl == [c EXCEPT !.loc = loc]
    IN  IF loc = NoLoc THEN Out(c, w)
        ELSE IF Adjacent(w.pos, loc) THEN Out([cl EXCEPT !.state = "placing"], w)
        ELSE Walk(cl, w, loc, honor)

ExecCookIngredient(c0, q, w, honor) ==
    LET c == [c0 EXCEPT !.turn_count = c0.turn_count + 1]
    IN  IF c.state = "navigating" THEN CookNavigate(c, w, honor)
        ELSE IF c.state = "placing"
        THEN IF ~Holds(w) THEN Out(c, w)
             ELSE LET w1 == DoPlace(w, c.loc, honor)
                  IN  IF ~Holds(w1) /\ IsPan(w1, c.loc)
                      THEN Req([c EXCEPT !.state = "cooking"], w1, "place")
                      ELSE Req([c EXCEPT !.state = "navigating"], w1, "place")
        ELSE IF c.state = "cooking"
        THEN IF ~IsPan(w, c.loc) THEN Out([c EXCEPT !.state = "done"], w)
             ELSE IF PanStage(w, c.loc) = 1
             THEN Saw(Out([c EXCEPT !.state = "picking_up"], w), 1)
             ELSE IF PanStage(w, c.loc) >= 2
             THEN Saw(Out([c EXCEPT !.state = "done"], w), PanStage(w, c.loc))
             ELSE Saw(Out(c, w), PanStage(w, c.loc))
        ELSE IF c.state = "picking_up"
        THEN IF PanStage(w, c.loc) = 1
             THEN LET w1 == DoTakeFromPan(w, c.loc, honor)
                  IN  IF Holds(w1)
                      THEN Saw(Req([c EXCEPT !.state = "done"], w1, "take_from_pan"), 1)
                      ELSE Saw(Req(c, w1, "take_from_pan"), 1)
             ELSE Saw(Out([c EXCEPT !.state = "done"], w), PanStage(w, c.loc))
        ELSE Out(c, w)

ExecStartCooking(c0, q, w, honor) ==
    LET c == [c0 EXCEPT !.turn_count = c0.turn_count + 1]
    IN  IF c.state = "navigating" THEN CookNavigate(c, w, honor)
        ELSE IF c.state = "placing"
        THEN IF ~Holds(w) THEN Out(c, w)
             ELSE LET w1 == DoPlace(w, c.loc, honor)
                  IN  IF ~Holds(w1) THEN Req([c EXCEPT !.state = "done"], w1, "place")
                      ELSE Req([c EXCEPT !.state = "navigating"], w1, "place")
        ELSE Out(c, w)

\* FinishCookingCommand._find_cooker_with_food
find_cooker_with_food(w, food) ==
    LET S == {p \in TilesNamed(w, "COOKER") :
                 ItemAt(w, p).type = "Pan" /\ ItemAt(w, p).name = food}
    IN  IF S = {} THEN NoLoc ELSE First(S)

\* FinishCookingCommand.execute, state "waiting"
FinishWaiting(c, q, w) ==
    LET loc == IF c.loc = NoLoc THEN find_cooker_with_food(w, q.food) ELSE c.loc
        cl == [c EXCEPT !.loc = loc]
    IN  IF loc = NoLoc THEN Out(c, w)
        ELSE IF ~IsPan(w, loc) THEN Out([cl EXCEPT !.food_burned = TRUE, !.state = "done"], w)
        ELSE IF PanStage(w, loc) = 1 THEN Saw(Out([cl EXCEPT !.state = "navigating"], w), 1)
        ELSE IF PanStage(w, loc) >= 2
        THEN Saw(Out([cl EXCEPT !.food_burned = TRUE, !.state = "done"], w), PanStage(w, loc))
        ELSE Saw(Out(cl, w), PanStage(w, loc))

\* the pickup of whatever has cooked, burnt food included
FinishPickingUpAnyStage(c, w, honor) ==
    IF PanStage(w, c.loc) >= 1
    THEN Saw(Req([c EXCEPT !.state = "done"],
                 DoTakeFromPan(w, c.loc, honor), "take_from_pan"), PanStage(w, c.loc))
    ELSE Saw(Out([c EXCEPT !.food_burned = TRUE, !.state = "done"], w),
             PanStage(w, c.loc))

\* FinishCookingCommand.execute, state "picking_up"
FinishPickingUp(c, w, honor) ==
    IF PanStage(w, c.loc) = 1
    THEN Saw(Req([c EXCEPT !.state = "done"],
                 DoTakeFromPan(w, c.loc, honor), "take_from_pan"), 1)
    ELSE Saw(Out([c EXCEPT !.food_burned = TRUE, !.state = "done"], w),
             PanStage(w, c.loc))

ExecFinishCooking(c0, q, w, honor) ==
    LET c == [c0 EXCEPT !.turn_count = c0.turn_count + 1]
    IN  IF c.state = "waiting" THEN FinishWaiting(c, q, w)
        ELSE IF c.state = "navigating"
        THEN IF Adjacent(w.pos, c.loc) THEN Out([c EXCEPT !.state = "picking_up"], w)
             ELSE Walk(c, w, c.loc, honor)
        ELSE IF c.state = "picking_up" THEN FinishPickingUp(c, w, honor)
        ELSE Out(c, w)

ExecPlaceOnCounter(c0, q, w, honor) ==
    LET c == check_progress([c0 EXCEPT !.turn_count = c0.turn_count + 1],
                            <<w.pos, Holds(w)>>)
        loc == IF c.loc = NoLoc THEN find_closest_empty_tile(w, "COUNTER", w.pos)
               ELSE c.loc
        cl == [c EXCEPT !.loc = loc]
        again == [c EXCEPT !.loc = NoLoc, !.retries = c.retries + 1]
    IN  IF ~Holds(w) THEN Out(c, w)
        ELSE IF loc = NoLoc
        THEN IF c.retries < max_retries("PlaceOnCounter")
             THEN Out([c EXCEPT !.retries = c.retries + 1], w) ELSE Out(c, w)
        ELSE IF Adjacent(w.pos, loc)
        THEN IF ItemAt(w, loc) = NoItem
             THEN LET w1 == DoPlace(w, loc, honor)
                  IN  IF Holds(w1) THEN Req(again, w1, "place") ELSE Req(cl, w1, "place")
             ELSE Out(again, w)
        ELSE IF CanWalk(w, loc) THEN Walk(cl, w, loc, honor)
        ELSE Out(again, w)

ClosestPlate(w) ==
    Closest({p \in TilesNamed(w, "COUNTER") : ItemAt(w, p).type = "Plate"}, w.pos)

ExecPickupPlateFromCounter(c0, q, w, honor) ==
    LET c == check_progress([c0 EXCEPT !.turn_count = c0.turn_count + 1],
                            <<w.pos, Holds(w)>>)
        loc == IF c.loc = NoLoc \/ c.retries > 0 THEN ClosestPlate(w) ELSE c.loc
        cl == [c EXCEPT !.loc = loc]
        again == [c EXCEPT !.loc = NoLoc, !.retries = c.retries + 1]
    IN  IF Holds(w) THEN Out(c, w)
        ELSE IF loc = NoLoc THEN Out(again, w)
        ELSE IF Adjacent(w.pos, loc)
        THEN IF ItemAt(w, loc).type = "Plate"
             THEN Req(cl, DoPickup(w, loc, honor), "pickup")
             ELSE Out(again, w)
        ELSE IF CanWalk(w, loc) THEN Walk(cl, w, loc, honor)
        ELSE Out(again, w)

\* a box that is empty or holds an item of the held item's class
SuitableBox(w, p) == ItemAt(w, p) = NoItem \/ ItemAt(w, p).type = w.holding.type

ExecPlaceInBox(c0, q, w, honor) ==
    LET c == [c0 EXCEPT !.turn_count = c0.turn_count + 1]
        S == {p \in TilesNamed(w, "BOX") : SuitableBox(w, p)}
        loc == IF c.loc # NoLoc THEN c.loc ELSE IF S = {} THEN NoLoc ELSE First(S)
        cl == [c EXCEPT !.loc = loc]
        again == [c EXCEPT !.loc = NoLoc, !.retries = c.retries + 1]
    IN  IF ~Holds(w) THEN Out(c, w)
        ELSE IF loc = NoLoc
        THEN IF c.retries < max_retries("PlaceInBox")
             THEN Out([c EXCEPT !.retries = c.retries + 1], w) ELSE Out(c, w)
        ELSE IF Adjacent(w.pos, loc)
        THEN IF SuitableBox(w, loc)
             THEN LET w1 == DoPlace(w, loc, honor)
                  IN  IF Holds(w1) THEN Req(again, w1, "place") ELSE Req(cl, w1, "place")
             ELSE Out(again, w)
        ELSE Walk(cl, w, loc, honor)

ExecPickupPlateFromBox(c0, q, w, honor) ==
    LET c == [c0 EXCEPT !.turn_count = c0.turn_count + 1]
        S == {p \in TilesNamed(w, "BOX") : ItemAt(w, p).type = "Plate"}
        loc == IF c.loc # NoLoc THEN c.loc ELSE IF S = {} THEN NoLoc ELSE First(S)
        cl == [c EXCEPT !.loc = loc]
    IN  IF Holds(w) THEN Out(c, w)
        ELSE IF loc = NoLoc THEN Out(c, w)
        ELSE IF Adjacent(w.pos, loc) THEN Req(cl, DoPickup(w, loc, honor), "pickup")
        ELSE Walk(cl, w, loc, honor)

\* hasattr(item, 'food_name') and item.food_name == self.food_type.name
IsFoodNamed(w, p, food) == ItemAt(w, p).type = "Food" /\ ItemAt(w, p).name = food

\* retries += 1; if retries >= max_retries: state = "done"
AddRetry(c) ==
    LET r == c.retries + 1
    IN  [c EXCEPT !.state = IF r >= max_retries("AddFoodToPlate") THEN "done"
                            ELSE "navigating",
                  !.loc = NoLoc, !.retries = r]

ExecAddFoodToPlate(c0, q, w, honor) ==
    LET c == check_progress([c0 EXCEPT !.turn_count = c0.turn_count + 1],
                            <<c0.state, w.pos>>)
    IN  IF w.holding.type # "Plate" THEN Out([c EXCEPT !.state = "done"], w)
        ELSE IF c.state = "navigating"
        THEN LET loc == IF c.loc = NoLoc
                        THEN Closest({p \in TilesNamed(w, "COUNTER") :
                                         IsFoodNamed(w, p, q.food)}, w.pos)
                        ELSE c.loc
                 cl == [c EXCEPT !.loc = loc]
                 again == [c EXCEPT !.loc = NoLoc, !.retries = c.retries + 1]
             IN  IF loc = NoLoc
                 THEN Out([again EXCEPT !.state =
                              IF again.retries >= max_retries("AddFoodToPlate")
                              THEN "done" ELSE c.state], w)
                 ELSE IF Adjacent(w.pos, loc)
                 THEN IF IsFoodNamed(w, loc, q.food)
                      THEN Out([cl EXCEPT !.initial_food_count = Len(w.holding.foods),
                                          !.state = "adding"], w)
                      ELSE Out(again, w)
                 ELSE IF CanWalk(w, loc) THEN Walk(cl, w, loc, honor)
                 ELSE Out(again, w)
        ELSE IF c.state = "adding"
        THEN IF IsFoodNamed(w, c.loc, q.food)
             THEN LET w1 == DoAddFoodToPlate(w, c.loc, honor)
                  IN  IF w1.holding.type # "Plate"
                      THEN Req([c EXCEPT !.state = "done"], w1, "add_food_to_plate")
                      ELSE IF Len(w1.holding.foods) > c.initial_food_count
                      THEN Req([c EXCEPT !.state = "done"], w1, "add_food_to_plate")
                      ELSE Req(AddRetry(c), w1, "add_food_to_plate")
             ELSE Out(AddRetry(c), w)
        ELSE Out(c, w)

ExecSubmitOrder(c0, q, w, honor) ==
    LET c == [c0 EXCEPT !.turn_count = c0.turn_count + 1]
        loc == IF c.loc = NoLoc THEN find_tile(w, "SUBMIT") ELSE c.loc
        cl == [c EXCEPT !.loc = loc]
    IN  IF loc = NoLoc THEN Out(c, w)
        ELSE IF Adjacent(w.pos, loc)
        THEN IF w.holding.type = "Plate" /\ ~c.submitted
             THEN LET w1 == DoSubmit(w, loc, honor)
                  IN  Req([cl EXCEPT !.submitted = ~Holds(w1)], w1, "submit")
             ELSE Out(cl, w)
        ELSE Walk(cl, w, loc, honor)

\* current_cmd.execute(controller, bot_id), dispatched on the command's class
Execute(c, q, w, honor) ==
    CASE q.kind = "BuyIngredient" -> ExecBuyIngredient(c, q, w, honor)
      [] q.kind = "BuyPlate" -> ExecBuyPlate(c, q, w, honor)
      [] q.kind = "ChopIngredient" -> ExecChopIngredient(c, q, w, honor)
      [] q.kind = "CookIngredient" -> ExecCookIngredient(c, q, w, honor)
      [] q.kind = "StartCooking" -> ExecStartCooking(c, q, w, honor)
      [] q.kind = "FinishCooking" -> ExecFinishCooking(c, q, w, honor)
      [] q.kind = "PlaceOnCounter" -> ExecPlaceOnCounter(c, q, w, honor)
      [] q.kind = "PickupPlateFromCounter" -> ExecPickupPlateFromCounter(c, q, w, honor)
      [] q.kind = "PlaceInBox" -> ExecPlaceInBox(c, q, w, honor)
      [] q.kind = "PickupPlateFromBox" -> ExecPickupPlateFromBox(c, q, w, honor)
      [] q.kind = "AddFoodToPlate" -> ExecAddFoodToPlate(c, q, w, honor)
      [] q.kind = "SubmitOrder" -> ExecSubmitOrder(c, q, w, honor)

HoldsFood(w) == w.holding.type = "Food"

HoldsPlate(w) == w.holding.type = "Plate"

\* current_cmd.is_complete(controller, bot_id)
is_complete(c, q, w) ==
    CASE q.kind = "BuyIngredient" -> HoldsFood(w) /\ w.holding.name = q.food
      [] q.kind = "BuyPlate" -> HoldsPlate(w)
      [] q.kind = "ChopIngredient" -> c.state = "done" /\ HoldsFood(w) /\ w.holding.chopped
      [] q.kind = "CookIngredient" -> c.state = "done" /\ HoldsFood(w) /\ w.holding.stage = 1
      [] q.kind = "StartCooking" -> c.state = "done"
      [] q.kind = "FinishCooking" ->
             c.state = "done" /\ (c.food_burned \/ (HoldsFood(w) /\ w.holding.stage = 1))
      [] q.kind = "PlaceOnCounter" -> ~Holds(w)
      [] q.kind = "PickupPlateFromCounter" -> HoldsPlate(w)
      [] q.kind = "PlaceInBox" -> ~Holds(w)
      [] q.kind = "PickupPlateFromBox" -> HoldsPlate(w)
      [] q.kind = "AddFoodToPlate" -> c.state = "done"
      [] q.kind = "SubmitOrder" -> ~Holds(w)

(***************************************************************************)
(* RecipePlanner.  A compiled command is [kind, food]; food is "-" for the *)
(* commands that carry no food type.                                       *)
(***************************************************************************)
Cmd(kind) == [kind |-> kind, food |-> "-"]

CmdOf(kind, food) == [kind |-> kind, food |-> food]

needs_chopping(food) == can_chop(food)

needs_cooking(food) == can_cook(food)

count_tiles(w, name) == Cardinality(TilesNamed(w, name))

\* FoodType[food_name], unknown names skipped
KnownFood(name) == name \in FoodNames

\* the boxes not counted
use_box_for_plate_one_counter(w) == count_tiles(w, "COUNTER") = 1

\* the counters counted only while they are empty
use_box_for_plate_empty_counters(w) ==
    /\ Cardinality({p \in TilesNamed(w, "COUNTER") : ItemAt(w, p).type = "None"}) = 1
    /\ count_tiles(w, "BOX") >= 1

use_box_for_plate(w) == count_tiles(w, "COUNTER") = 1 /\ count_tiles(w, "BOX") >= 1

\* the plate not put back after the ingredient was added
add_ingredient_keeps_plate(food, box) ==
    << Cmd("PlaceOnCounter"),
       IF box THEN Cmd("PickupPlateFromBox") ELSE Cmd("PickupPlateFromCounter"),
       CmdOf("AddFoodToPlate", food) >>

add_ingredient_to_plate_sequence(food, box) ==
    << Cmd("PlaceOnCounter"),
       IF box THEN Cmd("PickupPlateFromBox") ELSE Cmd("PickupPlateFromCounter"),
       CmdOf("AddFoodToPlate", food),
       IF box THEN Cmd("PlaceInBox") ELSE Cmd("PlaceOnCounter") >>

\* buy, never chop
BuyNoChop(food) == <<CmdOf("BuyIngredient", food)>>

\* buy, chop if needed
BuyAndChop(food) ==
    <<CmdOf("BuyIngredient", food)>>
        \o (IF needs_chopping(food) THEN <<Cmd("ChopIngredient")>> ELSE <<>>)

RECURSIVE PlainItems(_, _)
\* the loop over the non-cooking foods of the parallel strategy
PlainItems(foods, box) ==
    IF foods = <<>> THEN <<>>
    ELSE BuyAndChop(Head(foods))
             \o add_ingredient_to_plate_sequence(Head(foods), box)
             \o PlainItems(Tail(foods), box)

RECURSIVE CookedItems(_, _)
\* the loop over cooking_foods[1:] of the parallel strategy
CookedItems(foods, box) ==
    IF foods = <<>> THEN <<>>
    ELSE BuyAndChop(Head(foods)) \o <<Cmd("CookIngredient")>>
             \o add_ingredient_to_plate_sequence(Head(foods), box)
             \o CookedItems(Tail(foods), box)

RECURSIVE SequentialItems(_, _)
\* the loop of the sequential strategy
SequentialItems(foods, box) ==
    IF foods = <<>> THEN <<>>
    ELSE BuyAndChop(Head(foods))
             \o (IF needs_cooking(Head(foods)) THEN <<Cmd("CookIngredient")>> ELSE <<>>)
             \o add_ingredient_to_plate_sequence(Head(foods), box)
             \o SequentialItems(Tail(foods), box)

\* the parallel strategy whatever the number of non-cooking foods
use_parallel_cooking_always(cooking_foods, non_cooking_foods, box) ==
    cooking_foods # <<>> /\ ~box

use_parallel_cooking(cooking_foods, non_cooking_foods, box) ==
    cooking_foods # <<>> /\ ~box /\ Len(non_cooking_foods) <= 1

build_commands_for_order(order, w) ==
    LET required_foods == SelectSeq(order.required, KnownFood)
        cooking_foods == SelectSeq(required_foods, needs_cooking)
        NotCooking(f) == ~needs_cooking(f)
        non_cooking_foods == SelectSeq(required_foods, NotCooking)
        box == use_box_for_plate(w)
        first_cooking == Head(cooking_foods)
    IN  <<Cmd("BuyPlate"), IF box THEN Cmd("PlaceInBox") ELSE Cmd("PlaceOnCounter")>>
        \o (IF use_parallel_cooking(cooking_foods, non_cooking_foods, box)
            THEN BuyAndChop(first_cooking) \o <<Cmd("StartCooking")>>
                     \o PlainItems(non_cooking_foods, box)
                     \o <<CmdOf("FinishCooking", first_cooking)>>
                     \o add_ingredient_to_plate_sequence(first_cooking, box)
                     \o CookedItems(Tail(cooking_foods), box)
            ELSE SequentialItems(required_foods, box))
        \o <<IF box THEN Cmd("PickupPlateFromBox") ELSE Cmd("PickupPlateFromCounter"),
             Cmd("SubmitOrder")>>

(***************************************************************************)
(* BotPlayer.  b is the executor's own state: command_queue,               *)
(* current_command_index, processed_orders, current_order_id (0 for None), *)
(* cleaning_workspace and cleanup_turns.                                   *)
(***************************************************************************)
max_cleanup_turns == 20

TotalTurns == 500

NewBot == [command_queue |-> <<>>, current_command_index |-> 0,
           processed_orders |-> {}, current_order_id |-> 0,
           cleaning_workspace |-> FALSE, cleanup_turns |-> 0]

has_accessible_tile_type(w, name, from) ==
    \E t \in TilesNamed(w, name) :
        /\ \E n \in Neigh(t) : n \in MapCells(w.lay) /\ is_walkable(w.lay, n)
        /\ (bfs_to_adjacent(GridOf(w), from, t) # NoMove \/ Adjacent(from, t))

\* the is_active flag not consulted
order_still_listed(w, id) ==
    \E i \in 1..Len(w.orders) : w.orders[i].order_id = id

\* any(o["order_id"] == current_order_id and o["is_active"] for o in orders)
order_still_active(w, id) ==
    \E i \in 1..Len(w.orders) : w.orders[i].order_id = id /\ w.orders[i].is_active

\* the cleanup counter not reset on entry
AbortPlanStaleCount(b) ==
    [b EXCEPT !.processed_orders = b.processed_orders \cup
                  (IF b.current_order_id # 0 THEN {b.current_order_id} ELSE {}),
              !.command_queue = <<>>, !.current_command_index = 0,
              !.current_order_id = 0, !.cleaning_workspace = TRUE,
              !.cleanup_turns = -3]

\* the plan dropped: queue cleared, order marked processed, cleanup mode entered
AbortPlan(b) ==
    [b EXCEPT !.processed_orders = b.processed_orders \cup
                  (IF b.current_order_id # 0 THEN {b.current_order_id} ELSE {}),
              !.command_queue = <<>>, !.current_command_index = 0,
              !.current_order_id = 0, !.cleaning_workspace = TRUE,
              !.cleanup_turns = 0]

\* a clean empty plate cannot be trashed
\* every plate taken for a clean empty one
CleanEmptyPlateAnyPlate(item) == item.type = "Plate"

CleanEmptyPlate(item) == item.type = "Plate" /\ item.foods = <<>> /\ ~item.dirty

\* find_closest_empty_tile(COUNTER), else find_closest_empty_tile(BOX)
PlateSpot(w) ==
    IF find_closest_empty_tile(w, "COUNTER", w.pos) # NoLoc
    THEN find_closest_empty_tile(w, "COUNTER", w.pos)
    ELSE find_closest_empty_tile(w, "BOX", w.pos)

\* go next to loc, then issue the request
Act(b, w, reqs) == [b |-> b, w |-> w, reqs |-> reqs]

MoveOr(b, w, loc, w1, kind, honor) ==
    IF Adjacent(w.pos, loc) THEN Act(b, w1, <<kind>>)
    ELSE LET m == bfs_to_adjacent(GridOf(w), w.pos, loc)
         IN  IF m # NoMove THEN Act(b, DoMove(w, m, honor), <<"move">>)
             ELSE Act(b, w, <<>>)

\* first Food on a COUNTER or BOX, else first Plate
cleanup_target(w) ==
    LET On(type) == {p \in TilesNamed(w, "COUNTER") \cup TilesNamed(w, "BOX") :
                        ItemAt(w, p).type = type}
    IN  IF On("Food") # {} THEN First(On("Food"))
        ELSE IF On("Plate") # {} THEN First(On("Plate"))
        ELSE NoLoc

\* the cleanup-mode block of play_turn
Cleanup(b0, w, honor) ==
    LET b == [b0 EXCEPT !.cleanup_turns = b0.cleanup_turns + 1]
        leave == [b EXCEPT !.cleaning_workspace = FALSE]
    IN  IF b.cleanup_turns > max_cleanup_turns
        THEN Act([leave EXCEPT !.cleanup_turns = 0], w, <<>>)
        ELSE IF Holds(w) /\ CleanEmptyPlate(w.holding)
        THEN IF PlateSpot(w) # NoLoc
             THEN MoveOr(b, w, PlateSpot(w), DoPlace(w, PlateSpot(w), honor), "place", honor)
             ELSE Act(leave, w, <<>>)
        ELSE IF Holds(w)
        THEN IF find_tile(w, "TRASH") # NoLoc
             THEN MoveOr(b, w, find_tile(w, "TRASH"),
                         DoTrash(w, find_tile(w, "TRASH"), honor), "trash", honor)
             ELSE Act(leave, w, <<>>)
        ELSE IF cleanup_target(w) # NoLoc
        THEN MoveOr(b, w, cleanup_target(w),
                    DoPickup(w, cleanup_target(w), honor), "pickup", honor)
        ELSE Act(leave, w, <<>>)

\* the held item disposed of between orders
Dispose(b, w, honor) ==
    IF CleanEmptyPlate(w.holding)
    THEN IF PlateSpot(w) # NoLoc
         THEN MoveOr(b, w, PlateSpot(w), DoPlace(w, PlateSpot(w), honor), "place", honor)
         ELSE Act(b, w, <<>>)
    ELSE IF find_tile(w, "TRASH") # NoLoc
    THEN MoveOr(b, w, find_tile(w, "TRASH"),
                DoTrash(w, find_tile(w, "TRASH"), honor), "trash", honor)
    ELSE Act(b, w, <<>>)

(***************************************************************************)
(* Order selection.  The buffers 1.15 and 1.30 are compared in hundredths. *)
(***************************************************************************)
CountIf(seq, Test(_)) == Cardinality({i \in 1..Len(seq) : Test(seq[i])})

cooking_count(o) == LET T(n) == KnownFood(n) /\ needs_cooking(n) IN CountIf(o.required, T)

chopping_count(o) == LET T(n) == KnownFood(n) /\ can_chop(n) IN CountIf(o.required, T)

\* the turns left in the game instead of the turns left to the order
remaining_turns_of_game(o, w) == TotalTurns - w.turn

remaining_turns(o, w) == o.expires_turn - w.turn

min_turns_needed(o) == IF cooking_count(o) > 0 THEN 50 ELSE 10

cooking_turns(o) ==
    IF cooking_count(o) = 0 THEN 0
    ELSE IF Len(o.required) - cooking_count(o) <= 1
    THEN (cooking_count(o) - 1) * 28 + 18
    ELSE cooking_count(o) * 28

estimated_turns(o) ==
    25 + Len(o.required) * 10 + chopping_count(o) * 7 + cooking_turns(o)

RECURSIVE SumCost(_)
SumCost(names) ==
    IF names = <<>> THEN 0
    ELSE (IF KnownFood(Head(names)) THEN buy_cost(Head(names)) ELSE 0)
             + SumCost(Tail(names))

\* the plate left out of the cost
ingredient_cost_no_plate(o) == SumCost(o.required)

ingredient_cost(o) == SumCost(o.required) + PlateCost

total_value(o) == o.reward + o.penalty

profit(o) == total_value(o) - ingredient_cost(o)

\* the candidate filter ignoring processed_orders
ConsideredAgain(b, o) == o.is_active

\* order["is_active"] and order["order_id"] not in self.processed_orders
Considered(b, o) == o.is_active /\ o.order_id \notin b.processed_orders

\* the checks that `continue` past an order after marking it processed
Rejected(o, w) ==
    \/ remaining_turns(o, w) < min_turns_needed(o)
    \/ cooking_count(o) > 0 /\ ~has_accessible_tile_type(w, "COOKER", w.pos)
    \/ chopping_count(o) > 0 /\ ~has_accessible_tile_type(w, "COUNTER", w.pos)
    \/ remaining_turns(o, w) * 100 < estimated_turns(o) * 115
    \/ ingredient_cost(o) >= total_value(o)

late_game(w) == TotalTurns - w.turn < 200

\* the standard buffer in every phase
buffer_multiplier_standard(w) == 115

buffer_multiplier(w) == IF late_game(w) THEN 130 ELSE 115

\* the efficiency order in every phase
SortsBeforeByEfficiency(w, i, j) ==
    LET oi == w.orders[i]
        oj == w.orders[j]
    IN  \/ profit(oi) * estimated_turns(oj) > profit(oj) * estimated_turns(oi)
        \/ profit(oi) * estimated_turns(oj) = profit(oj) * estimated_turns(oi) /\ i <= j

\* position of candidate i before candidate j after the (stable) sort
SortsBefore(w, i, j) ==
    LET oi == w.orders[i]
        oj == w.orders[j]
    IN  IF late_game(w)
        THEN \/ estimated_turns(oi) < estimated_turns(oj)
             \/ estimated_turns(oi) = estimated_turns(oj) /\ profit(oi) > profit(oj)
             \/ estimated_turns(oi) = estimated_turns(oj) /\ profit(oi) = profit(oj) /\ i <= j
        ELSE \/ profit(oi) * estimated_turns(oj) > profit(oj) * estimated_turns(oi)
             \/ profit(oi) * estimated_turns(oj) = profit(oj) * estimated_turns(oi) /\ i <= j

\* the ids of the orders that enter the body of the order loop
Evaluated(b, w) ==
    {w.orders[i].order_id : i \in {j \in 1..Len(w.orders) : Considered(b, w.orders[j])}}

\* the order loop, the sort and the choice of `best`
Select(b, w) ==
    LET seen == {i \in 1..Len(w.orders) : Considered(b, w.orders[i])}
        out == {i \in seen : Rejected(w.orders[i], w)}
        fits == {i \in seen \ out :
                    remaining_turns(w.orders[i], w) * 100
                        >= estimated_turns(w.orders[i]) * buffer_multiplier(w)}
        marked == [b EXCEPT !.processed_orders =
                      b.processed_orders \cup {w.orders[i].order_id : i \in out}]
    IN  IF fits = {} THEN marked
        ELSE LET best == CHOOSE i \in fits : \A j \in fits : SortsBefore(w, i, j)
             IN  [marked EXCEPT !.current_order_id = w.orders[best].order_id,
                                !.command_queue = build_commands_for_order(w.orders[best], w),
                                !.current_command_index = 0]

(***************************************************************************)
(* play_turn.  One call is one Tick: it yields the executor's state, the   *)
(* current command's state, the world, and a record of what the call did.  *)
(***************************************************************************)
IdleCmd == NewCmd("-")

\* what one call did: the branch it took, whether the bound order was stale
\* and cleanup mode was on when it began, the order it selected, the command
\* it executed with its state before and after, the requests it issued,
\* whether the request was refused, the cook stage observed, whether
\* is_complete held, the food count of the held plate when the call began;
\* whether the plan's last command completed in this call, the ids of the
\* orders the selection loop evaluated, whether execute left the command's
\* state, the position and the held item as they were;
\* the tile a cleanup call took an item from;
\* and, across calls, the number of plan aborts, the consecutive cleanup
\* calls, the tiles they placed an item on, whether a stuck abort
\* still awaits its first cleanup tick, and whether a finished plan does
NoLog == [branch |-> "none", stale |-> FALSE, was_cleaning |-> FALSE, selected |-> 0,
          kind |-> "-", food |-> "-", before |-> "-", after |-> "-",
          reqs |-> <<>>, refused |-> FALSE, seen |-> -1, completed |-> FALSE,
          count_before |-> 0, aborts |-> 0, owed |-> FALSE,
          finished |-> FALSE, unclean |-> FALSE, evaluated |-> {},
          same |-> FALSE, still |-> 0, episode |-> 0,
          put |-> {}, took |-> NoLoc]

\* the order bound at the start of the call is no longer in the active set
Stale(b, w) ==
    /\ b.current_order_id # 0
    /\ ~\E i \in 1..Len(w.orders) :
           w.orders[i].order_id = b.current_order_id /\ w.orders[i].is_active

Refused(w, w1, reqs) == reqs # <<>> /\ w1 = w

\* not self.command_queue or self.current_command_index >= len(self.command_queue)
NoCommands(b) == b.current_command_index >= Len(b.command_queue)

current_command(b) == b.command_queue[b.current_command_index + 1]

\* the stuck abort that does not enter cleanup mode
StuckAbortNoCleanup(b) == [AbortPlan(b) EXCEPT !.cleaning_workspace = FALSE]

\* the "Command STUCK" block
StuckAbort(b) == AbortPlan(b)

\* the bookkeeping after the last command left out
AdvanceKeepsOrder(b) == [b EXCEPT !.current_command_index = b.current_command_index + 1]

\* advance_command() and the bookkeeping after the last command
Advance(b) ==
    LET i == b.current_command_index + 1
    IN  IF i >= Len(b.command_queue)
        THEN [b EXCEPT !.current_command_index = i,
                       !.processed_orders = b.processed_orders \cup
                           (IF b.current_order_id # 0 THEN {b.current_order_id} ELSE {}),
                       !.current_order_id = 0]
        ELSE [b EXCEPT !.current_command_index = i]

\* "Check completion": the command `q` has been executed with result `r`
Completed(b, c, q, w, r, done, lg) ==
    LET b1 == IF done THEN Advance(b) ELSE b
    IN  [b |-> b1,
         c |-> IF ~done THEN r.c
               ELSE IF NoCommands(b1) THEN IdleCmd
               ELSE NewCmd(current_command(b1).kind),
         w |-> r.w,
         log |-> [lg EXCEPT !.branch = "exec", !.kind = q.kind, !.food = q.food,
                            !.before = c.state, !.after = r.c.state,
                            !.reqs = r.reqs, !.refused = Refused(w, r.w, r.reqs),
                            !.seen = r.seen, !.completed = done,
                            !.same = /\ r.c.state = c.state
                                     /\ r.w.pos = w.pos
                                     /\ r.w.holding = w.holding,
                            !.finished = done /\ NoCommands(b1)]]

Executed(b, c, q, w, r, lg) ==
    Completed(b, c, q, w, r, is_complete(r.c, q, r.w), lg)

\* "Execute current command": stuck check, execute, completion check
Run(b, c, w, honor, lg) ==
    LET q == current_command(b)
    IN  IF is_stuck(c, q.kind)
        THEN [b |-> StuckAbort(b), c |-> IdleCmd, w |-> w,
              log |-> [lg EXCEPT !.branch = "stuck", !.kind = q.kind, !.food = q.food]]
        ELSE Executed(b, c, q, w, Execute(c, q, w, honor), lg)

\* the result of a cleanup or disposal call
Tidied(r, c, w, lg, branch) ==
    [b |-> r.b, c |-> c, w |-> r.w,
     log |-> [lg EXCEPT !.branch = branch, !.reqs = r.reqs,
                        !.refused = Refused(w, r.w, r.reqs),
                        !.put = IF r.reqs = <<"place">> /\ r.w # w
                                THEN {PlateSpot(w)} ELSE {},
                        !.took = IF r.reqs = <<"pickup">> /\ r.w # w
                                 THEN cleanup_target(w) ELSE NoLoc]]

\* "If no commands, check for new orders" and then "Execute current
\* command"; `b1` is the bot after the selection when `sel`
Proceed(b1, sel, c, w, honor, lg) ==
    IF sel /\ b1.current_order_id = 0
    THEN [b |-> b1, c |-> c, w |-> w, log |-> [lg EXCEPT !.branch = "idle"]]
    ELSE Run(b1,
             IF sel THEN NewCmd(current_command(b1).kind) ELSE c,
             w, honor,
             IF sel THEN [lg EXCEPT !.selected = b1.current_order_id] ELSE lg)

Tick(b0, c0, w, honor) ==
    LET expired == b0.current_order_id # 0 /\ ~order_still_active(w, b0.current_order_id)
        b == IF expired THEN AbortPlan(b0) ELSE b0
        c == IF expired THEN IdleCmd ELSE c0
        lg == [NoLog EXCEPT !.stale = Stale(b0, w),
                            !.was_cleaning = b0.cleaning_workspace,
                            !.count_before = Len(w.holding.foods)]
    IN  IF b.cleaning_workspace
        THEN Tidied(Cleanup(b, w, honor), c, w, lg, "clean")
        ELSE IF NoCommands(b) /\ Holds(w)
        THEN Tidied(Dispose(b, w, honor), c, w, lg, "dispose")
        ELSE Proceed(IF NoCommands(b) THEN Select(b, w) ELSE b,
                     NoCommands(b), c, w, honor,
                     IF NoCommands(b) THEN [lg EXCEPT !.evaluated = Evaluated(b, w)]
                     ELSE lg)

\* the navigator specification's state while the kitchen runs
NavIdle == [pc |-> "idle", g |-> [w |-> 0, h |-> 0, walk |-> {}, occ |-> {}],
            start |-> <<0, 0>>, goal |-> <<0, 0>>, from |-> <<0, 0>>, result |-> NoMove]

(***************************************************************************)
(* The collaborator: the scenarios the game starts from, the request kinds *)
(* it refuses, and its own step between two calls of play_turn (the turn   *)
(* counter, the cooking of the food in the pans, the expiry of orders).    *)
(***************************************************************************)
MaxTicks == 60
MaxRefusals == 1

RequestKinds == {"move", "buy", "place", "pickup", "chop", "take_from_pan",
                 "add_food_to_plate", "submit", "trash"}

Order(id, required, reward, penalty, expires) ==
    [order_id |-> id, required |-> required, reward |-> reward, penalty |-> penalty,
     expires_turn |-> expires, is_active |-> TRUE, fulfilled |-> FALSE]

Scenarios == <<
    [lay |-> 1, orders |-> <<Order(1, <<"NOODLES">>, 20, 2, 400)>>],
    [lay |-> 2, orders |-> <<Order(1, <<"EGG">>, 20, 2, 400)>>],
    [lay |-> 2, orders |-> <<Order(1, <<"ONIONS">>, 40, 2, 49),
                             Order(2, <<"NOODLES">>, 20, 2, 400)>>],
    [lay |-> 3, orders |-> <<Order(1, <<"MEAT">>, 30, 2, 400)>>],
    [lay |-> 5, orders |-> <<Order(1, <<"EGG">>, 20, 2, 400)>>] >>

StartWorld(sc) ==
    [lay |-> sc.lay, pos |-> <<1, 1>>, holding |-> NoItem,
     items |-> InitialItems(sc.lay), money |-> 100, orders |-> sc.orders, turn |-> 0]

Init ==
    /\ nav = NavIdle
    /\ \E i \in 1..Len(Scenarios) : world = StartWorld(Scenarios[i])
    /\ bot = NewBot
    /\ cmd = IdleCmd
    /\ log = NoLog
    /\ \E d \in RequestKinds \cup {"none"} :
           env = [phase |-> "bot", deny |-> d, refusals |-> MaxRefusals,
                  last |-> MaxTicks]

\* the record of a call, with the counts carried over from the calls before
History(prev, cur) ==
    [cur EXCEPT !.aborts = prev.aborts
                    + (IF cur.stale \/ cur.branch = "stuck" THEN 1 ELSE 0),
                !.owed = IF cur.branch = "clean" THEN FALSE
                         ELSE IF cur.branch = "stuck" THEN TRUE
                         ELSE prev.owed,
                !.unclean = IF cur.branch = "clean" THEN FALSE
                            ELSE IF cur.finished THEN TRUE
                            ELSE prev.unclean,
                !.still = IF cur.branch = "exec" /\ ~cur.completed /\ cur.same
                          THEN prev.still + 1 ELSE 0,
                !.episode = IF cur.branch = "clean" THEN prev.episode + 1 ELSE 0,
                !.put = IF cur.branch = "clean" THEN prev.put \cup cur.put ELSE {}]

\* one call of play_turn; the collaborator honours the request, or refuses
\* it (every request of the kind it denies, and MaxRefusals more)
Honoured(spend) == IF spend THEN {} ELSE RequestKinds \ {env.deny}

\* the call returns with result `r`
Returned(r, spend) ==
    /\ spend => env.refusals > 0 /\ r.log.reqs # <<>>
    /\ bot' = r.b
    /\ cmd' = r.c
    /\ world' = r.w
    /\ log' = History(log, r.log)
    /\ env' = [env EXCEPT !.phase = "env",
                          !.refusals = IF spend THEN @ - 1 ELSE @]

PlayTurn ==
    /\ env.phase = "bot"
    /\ \E spend \in BOOLEAN :
           Returned(Tick(bot, cmd, world, Honoured(spend)), spend)
    /\ UNCHANGED nav

\* food in a pan cooks: raw (0), cooked (1), burnt (2)
Cooked(item, heat) ==
    IF item.type = "Pan" /\ item.name # "-" /\ heat /\ item.stage < 2
    THEN [item EXCEPT !.stage = item.stage + 1] ELSE item

Expired(o, turn) == [o EXCEPT !.is_active = o.is_active /\ turn < o.expires_turn]

EnvStep ==
    /\ env.phase = "env"
    /\ world.turn < env.last
    /\ \E heat \in BOOLEAN :
           world' = [world EXCEPT
                        !.turn = world.turn + 1,
                        !.items = [p \in DOMAIN world.items |-> Cooked(world.items[p], heat)],
                        !.orders = [i \in 1..Len(world.orders) |->
                                       Expired(world.orders[i], world.turn + 1)]]
    /\ env' = [env EXCEPT !.phase = "bot"]
    /\ UNCHANGED <<nav, bot, cmd, log>>

Next == PlayTurn \/ EnvStep

Spec == Init /\ [][Next]_vars

(***************************************************************************)
(* Navigator specification: the inputs are drawn in NavInit, NavCall       *)
(* applies bfs_to_adjacent, NavMove takes the returned step (the path is   *)
(* recomputed from scratch on every tick).                                 *)
(***************************************************************************)
NavCells == (0..(NavW - 1)) \X (0..(NavH - 1))

SmallSubsets(S, n) == {T \in SUBSET S : Cardinality(T) <= n}

NavInit ==
    /\ \E walls \in SmallSubsets(NavCells, MaxWalls) :
       \E start \in NavCells \ walls :
       \E others \in SmallSubsets(NavCells \ {start}, MaxOcc) :
       \E goal \in NavCells :
           nav = [pc |-> "call",
                  g |-> [w |-> NavW, h |-> NavH, walk |-> NavCells \ walls,
                         occ |-> others \cup {start}],
                  start |-> start, goal |-> goal, from |-> start, result |-> NoMove]
    /\ world = StartWorld(Scenarios[1])
    /\ bot = NewBot
    /\ cmd = IdleCmd
    /\ log = NoLog
    /\ env = [phase |-> "nav", deny |-> "none", refusals |-> 0, last |-> 0]

NavCall ==
    /\ nav.pc = "call"
    /\ nav' = [nav EXCEPT !.pc = "move", !.from = nav.start,
                          !.result = bfs_to_adjacent(nav.g, nav.start, nav.goal)]
    /\ UNCHANGED <<world, bot, cmd, log, env>>

NavMove ==
    /\ nav.pc = "move"
    /\ nav.result # NoMove
    /\ LET n == <<nav.start[1] + nav.result[1], nav.start[2] + nav.result[2]>>
       IN  nav' = [nav EXCEPT !.pc = "call", !.start = n,
                              !.g = [nav.g EXCEPT !.occ = (nav.g.occ \ {nav.start}) \cup {n}]]
    /\ UNCHANGED <<world, bot, cmd, log, env>>

NavNext == NavCall \/ NavMove

SpecNav == NavInit /\ [][NavNext]_vars


(***************************************************************************)
(* Selector specification: the open orders, the turn and the map are drawn *)
(* in SelInit; the executor is idle with empty hands, so the first call of *)
(* play_turn runs the order selection.                                     *)
(***************************************************************************)
SelTicks == 2

SelRecipes == {<<"NOODLES">>, <<"ONIONS">>, <<"EGG">>, <<"NOODLES", "EGG">>}

SelRewards == {4, 20, 60}

SelRemaining == {8, 41, 46, 52, 61, 69, 150}

\* an early-phase and a late-phase turn
SelTurns == {0, 320}

SelLayouts == {1, 2, 4}

SelOrders(turn) ==
    {<<Order(1, q1, r1, 2, turn + t1), Order(2, q2, r2, 2, turn + t2)>> :
        <<q1, r1, t1, q2, r2, t2>> \in
            SelRecipes \X SelRewards \X SelRemaining
                \X SelRecipes \X SelRewards \X SelRemaining}

SelInit ==
    /\ nav = NavIdle
    /\ \E lay \in SelLayouts : \E turn \in SelTurns : \E orders \in SelOrders(turn) :
           /\ world = [StartWorld([lay |-> lay, orders |-> orders]) EXCEPT !.turn = turn]
           /\ env = [phase |-> "bot", deny |-> "none", refusals |-> 0,
                     last |-> turn + SelTicks]
    /\ bot = NewBot
    /\ cmd = IdleCmd
    /\ log = NoLog

SpecSel == SelInit /\ [][Next]_vars

(***************************************************************************)
(* Planner specification: an order of up to PlanItems known foods and a    *)
(* map are drawn; Compile is the call of build_commands_for_order that     *)
(* fills command_queue, Disturb is the world changing between two calls    *)
(* (the bot elsewhere, an item left on a station, the clock, the money).   *)
(***************************************************************************)
PlanItems == 3

PlanOrders ==
    {Order(1, req, 20, 2, 400) : req \in UNION {[1..n -> FoodNames] : n \in 1..PlanItems}}

PlanInit ==
    /\ nav = NavIdle
    /\ \E lay \in DOMAIN Layouts, o \in PlanOrders :
           world = StartWorld([lay |-> lay, orders |-> <<o>>])
    /\ env = [phase |-> "order", deny |-> "none", refusals |-> 0, last |-> 0]
    /\ bot = NewBot
    /\ cmd = IdleCmd
    /\ log = NoLog

Compile ==
    /\ env.phase \in {"order", "moved"}
    /\ bot' = [bot EXCEPT !.current_order_id = world.orders[1].order_id,
                          !.command_queue = build_commands_for_order(world.orders[1], world),
                          !.current_command_index = 0]
    /\ env' = [env EXCEPT !.phase = "plan"]
    /\ UNCHANGED <<nav, world, cmd, log>>

Disturb ==
    /\ env.phase = "plan"
    /\ world.turn = 0
    /\ \E p \in {c \in MapCells(world.lay) : is_walkable(world.lay, c)},
          s \in Stations(world.lay), item \in {NoItem, PlateItem, FoodItem("EGG")} :
           world' = [world EXCEPT !.pos = p, !.turn = 1, !.money = 50,
                                  !.items[s] = IF @.type = "Pan" THEN @ ELSE item]
    /\ env' = [env EXCEPT !.phase = "moved"]
    /\ UNCHANGED <<nav, bot, cmd, log>>

PlanNext == Compile \/ Disturb

SpecPlan == PlanInit /\ [][PlanNext]_vars

(***************************************************************************)
(* Long-run specification: the game of a scenario played for LongTicks     *)
(* ticks against a collaborator that refuses every request of one kind (or *)
(* none).  The engine calls play_turn and advances the world on every tick *)
(* up to the last one: Ticks is the step either of them takes, and         *)
(* FairSpec lets no tick be skipped forever.                               *)
(***************************************************************************)
LongTicks == 390

LongInit ==
    /\ nav = NavIdle
    /\ \E i \in 1..Len(Scenarios) : world = StartWorld(Scenarios[i])
    /\ bot = NewBot
    /\ cmd = IdleCmd
    /\ log = NoLog
    /\ \E d \in RequestKinds \cup {"none"} :
           env = [phase |-> "bot", deny |-> d, refusals |-> 0, last |-> LongTicks]

\* what every step of Next does to env, enabled exactly when Next is
Ticks ==
    /\ env.phase = "bot" \/ world.turn < env.last
    /\ \E r \in 0..MaxRefusals :
           env' = [env EXCEPT !.phase = IF @ = "bot" THEN "env" ELSE "bot", !.refusals = r]

FairSpec == LongInit /\ [][Next]_vars /\ WF_env(Ticks)

(***************************************************************************)
(* The movement helpers of src/bots/claude_bot-tune.py.  A call is made    *)
(* for the bot at `pos` with a target tile and a station action; the       *)
(* collaborator honours the move unless the cell holds another bot, and    *)
(* the station action succeeds only for a bot that is next to the target.  *)
(***************************************************************************)
StationActions == {"buy", "place", "pickup", "chop", "take_from_pan",
                   "add_food_to_plate", "submit", "trash"}

\* _bfs_step with goal_fn = "within Chebyshev distance 1 of the target":
\* (0, 0) for an empty path, None (found = FALSE) when the queue runs out
bfs_step(g, start, goal, blocked) ==
    IF Adjacent(start, goal) THEN [found |-> TRUE, step |-> NoMove]
    ELSE LET first == BfsLoop([g EXCEPT !.occ = blocked], start, goal,
                              <<[p |-> start, first |-> NoMove]>>, {start})
         IN  [found |-> first # NoMove, step |-> first]

\* the step searched around the other bots, then through them
StepTowards(g, pos, goal) ==
    LET blocked == g.occ \ {pos}
        step == bfs_step(g, pos, goal, blocked)
    IN  IF step.found THEN step ELSE bfs_step(g, pos, goal, {})

\* the requests issued, the value returned and the bot's cell after the
\* call; controller.move is refused when another bot stands on the cell, a
\* station action fails for a bot that is not next to the target
move_then_act(g, pos, goal, kind, ok) ==
    IF Adjacent(pos, goal)
    THEN [reqs |-> <<kind>>, ret |-> ok, pos |-> pos]
    ELSE LET step == StepTowards(g, pos, goal)
             n == <<pos[1] + step.step[1], pos[2] + step.step[2]>>
             at == IF n \in g.occ THEN pos ELSE n
         IN  IF step.found /\ step.step # NoMove
             THEN IF Adjacent(n, goal)
                  THEN [reqs |-> <<"move", kind>>, ret |-> ok /\ Adjacent(at, goal),
                        pos |-> at]
                  ELSE [reqs |-> <<"move">>, ret |-> FALSE, pos |-> at]
             ELSE [reqs |-> <<>>, ret |-> FALSE, pos |-> pos]

move_or_action(g, pos, goal, kind, ok) ==
    IF Adjacent(pos, goal)
    THEN [reqs |-> <<kind>>, ret |-> ok, pos |-> pos]
    ELSE LET step == StepTowards(g, pos, goal)
             n == <<pos[1] + step.step[1], pos[2] + step.step[2]>>
             at == IF n \in g.occ THEN pos ELSE n
         IN  IF step.found /\ step.step # NoMove
             THEN [reqs |-> IF Adjacent(n, goal) THEN <<"move", kind>> ELSE <<"move">>,
                   ret |-> TRUE, pos |-> at]
             ELSE [reqs |-> <<>>, ret |-> FALSE, pos |-> pos]

(***************************************************************************)
(* Helper specification: a bot with one task (a target tile and a station  *)
(* action) on a drawn grid; every step is one play_turn, in which the      *)
(* task's helper is called once; the task is over when the call returns    *)
(* True.                                                                   *)
(***************************************************************************)
TuneInit ==
    /\ \E walls \in SmallSubsets(NavCells, MaxWalls) :
       \E start \in NavCells \ walls :
       \E others \in SmallSubsets(NavCells \ ({start} \cup walls), MaxOcc) :
       \E goal \in NavCells :
       \E kind \in StationActions :
           nav = [pc |-> "task",
                  g |-> [w |-> NavW, h |-> NavH, walk |-> NavCells \ walls,
                         occ |-> others \cup {start}],
                  start |-> start, goal |-> goal, from |-> start, result |-> NoMove,
                  kind |-> kind, helper |-> "-", issued |-> <<>>]
    /\ world = StartWorld(Scenarios[1])
    /\ bot = NewBot
    /\ cmd = IdleCmd
    /\ log = NoLog
    /\ env = [phase |-> "tune", deny |-> "none", refusals |-> 0, last |-> 0]

\* the call has returned `r`
TuneReturned(helper, r) ==
    /\ nav' = [nav EXCEPT !.pc = IF r.ret THEN "done" ELSE "task",
                          !.helper = helper,
                          !.from = nav.start,
                          !.start = r.pos,
                          !.g = [nav.g EXCEPT !.occ = (nav.g.occ \ {nav.start}) \cup {r.pos}],
                          !.issued = r.reqs]
    /\ UNCHANGED <<world, bot, cmd, log, env>>

MoveThenAct ==
    /\ env.phase = "tune"
    /\ nav.pc = "task"
    /\ \E ok \in BOOLEAN :
           TuneReturned("move_then_act",
                        move_then_act(nav.g, nav.start, nav.goal, nav.kind, ok))

MoveOrAction ==
    /\ env.phase = "tune"
    /\ nav.pc = "task"
    /\ \E ok \in BOOLEAN :
           TuneReturned("move_or_action",
                        move_or_action(nav.g, nav.start, nav.goal, nav.kind, ok))

SpecTune == TuneInit /\ [][MoveThenAct \/ MoveOrAction]_vars

(***************************************************************************)
(* Order choice and order assignment of src/bots/claude_bot-tune.py.  The  *)
(* team state t holds bot_orders (0 for None), the number of plan tasks    *)
(* each bot has left (bot_plans from bot_plan_idx on) and completed_orders;*)
(* w holds the orders, the turn and the team money.                        *)
(***************************************************************************)
\* the filters of the candidate loop: foods known, profitable, time left
\* for the estimate times the buffer (in hundredths), affordable
tune_accepts(o, turn, money) ==
    LET foods == SelectSeq(o.required, KnownFood)
        est_turns == 10 + Len(foods) * 4 + chopping_count(o) * 3
                              + cooking_count(o) * 20
        buffer == IF 500 - turn < 100 THEN 115
                             ELSE IF 500 - turn < 250 THEN 105 ELSE 102
    IN  /\ foods # <<>>
        /\ ingredient_cost(o) < total_value(o)
        /\ o.expires_turn - turn > 0
        /\ (o.expires_turn - turn) * 100 >= est_turns * buffer
        /\ ingredient_cost(o) <= money

\* the sort: by estimated_turns in the last 100 turns, else by score
\* (speed_bonus + profit * 0.8 + profit_per_turn * 60 - complexity * 2,
\* compared here after multiplication by 5 * estimated_turns)
tune_ranks_above(a, b, turn) ==
    LET Est(o) == 10 + Len(SelectSeq(o.required, KnownFood)) * 4
                     + chopping_count(o) * 3 + cooking_count(o) * 20
        Complexity(o) == cooking_count(o) * 2 + chopping_count(o)
        Score5e(o) == 500 + 4 * profit(o) * Est(o) + 300 * profit(o)
                          - 10 * Complexity(o) * Est(o)
    IN  IF 500 - turn < 100 THEN Est(a) < Est(b)
        ELSE Score5e(a) * Est(b) > Score5e(b) * Est(a)

\* _choose_order: the id of candidates[0] after the stable sort, 0 for None
choose_order(orders, completed, turn, money) ==
    LET cands == {i \in 1..Len(orders) :
                     /\ orders[i].is_active
                     /\ orders[i].order_id \notin completed
                     /\ tune_accepts(orders[i], turn, money)}
        top == {i \in cands : \A j \in cands : ~tune_ranks_above(orders[j], orders[i], turn)}
    IN  IF cands = {} THEN 0
        ELSE orders[CHOOSE i \in top : \A j \in top : i <= j].order_id

\* the orders already held by a bot not left out
available_orders_assigned_too(t, active) ==
    LET Fresh(o) == o.order_id \notin t.completed_orders
    IN  IF SelectSeq(active, Fresh) = <<>> THEN active ELSE SelectSeq(active, Fresh)

\* available_orders: the active orders no bot holds, the completed ones
\* among them only when there is no other
available_orders(t, active) ==
    LET assigned == {t.bot_orders[j] : j \in DOMAIN t.bot_orders} \ {0}
        Unheld(o) == o.order_id \notin assigned
        Fresh(o) == Unheld(o) /\ o.order_id \notin t.completed_orders
    IN  IF SelectSeq(active, Fresh) = <<>> THEN SelectSeq(active, Unheld)
        ELSE SelectSeq(active, Fresh)

\* the loop body of play_turn for bot i: the expired order dropped, a new
\* order bound when no plan is left and the hands are clear, one step of
\* the plan executed (`done`: _single_step returned True)
BotTurn(t, i, w, busy, done) ==
    LET IsActive(o) == o.is_active
        active == SelectSeq(w.orders, IsActive)
        t1 == IF t.bot_orders[i] # 0
                  /\ ~\E k \in 1..Len(active) : active[k].order_id = t.bot_orders[i]
              THEN [t EXCEPT !.bot_orders[i] = 0, !.left[i] = 0] ELSE t
        avail == available_orders(t1, active)
        assigned == {t1.bot_orders[j] : j \in DOMAIN t1.bot_orders} \ {0}
        next == choose_order(w.orders, t1.completed_orders, w.turn, w.money)
        pick == IF next # 0 /\ next \notin assigned THEN next ELSE avail[1].order_id
        o == CHOOSE x \in {w.orders[k] : k \in 1..Len(w.orders)} : x.order_id = pick
        \* _single_build_plan: plate, pan, the foods, pickup and submit
        length == 4 + (IF cooking_count(o) > 0 THEN 1 ELSE 0)
                    + 2 * Len(SelectSeq(o.required, KnownFood))
                    + chopping_count(o) + cooking_count(o)
        t2 == IF t1.left[i] > 0 THEN t1
              ELSE [t1 EXCEPT !.bot_orders[i] = pick, !.left[i] = length]
    IN  IF t1.left[i] = 0 /\ (busy \/ avail = <<>>) THEN t1
        ELSE IF ~done THEN t2
        ELSE IF t2.left[i] > 1 THEN [t2 EXCEPT !.left[i] = @ - 1]
        ELSE [t2 EXCEPT !.left[i] = 0, !.bot_orders[i] = 0,
                        !.completed_orders = @ \cup {t2.bot_orders[i]}]

RECURSIVE PlayBots(_, _, _, _, _)
\* for bot_id in bot_ids
PlayBots(t, i, w, busy, done) ==
    IF i > Len(t.bot_orders) THEN t
    ELSE PlayBots(BotTurn(t, i, w, busy[i], done[i]), i + 1, w, busy, done)

(***************************************************************************)
(* Team specification: the orders, the turn and the money are drawn; every *)
(* TeamTurn is one play_turn for all bots, every TeamEnv the collaborator's*)
(* step in between (the turn counter, an order arriving or leaving the     *)
(* active set).                                                            *)
(***************************************************************************)
TeamBots == 2
TeamOrders == 2
TeamTicks == 3

\* the orders the collaborator may report: a cheap dish, an 'intentionally
\* bad' one (cost above its value of 5) and a chopped-and-cooked one
TeamDishes ==
    { [required |-> <<"NOODLES">>, reward |-> 20, penalty |-> 2],
      [required |-> <<"NOODLES">>, reward |-> 5, penalty |-> 0],
      [required |-> <<"MEAT", "ONIONS">>, reward |-> 40, penalty |-> 5] }

\* the first bot is idle or about to submit the first order, which it took
\* when that was the only active one; the others are idle
TeamInit ==
    /\ nav = NavIdle
    /\ \E dish \in [1..TeamOrders -> TeamDishes], short \in BOOLEAN,
          turn \in {10, 420}, money \in {5, 100} :
           world = [orders |-> [k \in 1..TeamOrders |->
                                   Order(k, dish[k].required, dish[k].reward,
                                         dish[k].penalty,
                                         IF short /\ k = 1 THEN turn + 30 ELSE 500)],
                    turn |-> turn, money |-> money]
    /\ \E started \in BOOLEAN :
           bot = [bot_orders |-> [i \in 1..TeamBots |-> IF started /\ i = 1 THEN 1 ELSE 0],
                  left |-> [i \in 1..TeamBots |-> IF started /\ i = 1 THEN 1 ELSE 0],
                  completed_orders |-> {}]
    /\ cmd = IdleCmd
    /\ log = NoLog
    /\ env = [phase |-> "team", deny |-> "none", refusals |-> 0, last |-> TeamTicks]

TeamTurn ==
    /\ env.phase = "team"
    /\ \E busy \in [1..TeamBots -> BOOLEAN], done \in [1..TeamBots -> BOOLEAN] :
           bot' = PlayBots(bot, 1, world, busy, done)
    /\ env' = [env EXCEPT !.phase = "teamenv"]
    /\ UNCHANGED <<nav, world, cmd, log>>

TeamEnv ==
    /\ env.phase = "teamenv"
    /\ env.last > 0
    /\ \E k \in 0..Len(world.orders) :
           world' = [world EXCEPT
                        !.turn = @ + 1,
                        !.orders = [j \in 1..Len(world.orders) |->
                                       IF j = k THEN [@[j] EXCEPT !.is_active = ~@]
                                       ELSE @[j]]]
    /\ env' = [env EXCEPT !.phase = "team", !.last = @ - 1]
    /\ UNCHANGED <<nav, bot, cmd, log>>

SpecTeam == TeamInit /\ [][TeamTurn \/ TeamEnv]_vars

(***************************************************************************)
(* Order choice of src/bots/codex_vian.py.                                 *)
(***************************************************************************)
\* the two time checks of the loop (the factor 1.3 in tenths)
vian_has_time(o, turn) ==
    LET foods == SelectSeq(o.required, KnownFood)
        left == o.expires_turn - turn
    IN  /\ left >= (IF cooking_count(o) > 0 THEN 67 ELSE 40)
        /\ left * 10 >= (Len(foods) * 20 + cooking_count(o) * 30) * 13

\* the sort key with every order counted as valuable
vian_sort_key_without_value(o) ==
    LET foods == SelectSeq(o.required, KnownFood)
        effort == Len(foods) + 2 * chopping_count(o) + 3 * cooking_count(o)
    IN  << -1,
           -(total_value(o) - effort * 10),
           -total_value(o),
           -o.expires_turn - o.created_turn,
           -Len(foods) >>

\* the sort key: valuable first, then the higher adjusted reward, the
\* higher total value, the later expiry plus creation, the more foods
vian_sort_key(o) ==
    LET foods == SelectSeq(o.required, KnownFood)
        effort == Len(foods) + 2 * chopping_count(o) + 3 * cooking_count(o)
    IN  << -(IF ingredient_cost(o) < total_value(o) THEN 1 ELSE 0),
           -(total_value(o) - effort * 10),
           -total_value(o),
           -o.expires_turn - o.created_turn,
           -Len(foods) >>

\* tuple comparison of the sort keys
vian_sorts_before(a, b) ==
    \E k \in 1..5 : /\ vian_sort_key(a)[k] < vian_sort_key(b)[k]
                    /\ \A j \in 1..(k - 1) : vian_sort_key(a)[j] = vian_sort_key(b)[j]

\* _choose_order: the id of scored[0] after the stable sort, 0 for None
vian_choose_order(orders, turn) ==
    LET scored == {i \in 1..Len(orders) :
                      orders[i].is_active /\ vian_has_time(orders[i], turn)}
        top == {i \in scored : \A j \in scored : ~vian_sorts_before(orders[j], orders[i])}
    IN  IF scored = {} THEN 0
        ELSE orders[CHOOSE i \in top : \A j \in top : i <= j].order_id

VianOrders == 3

\* the orders of test_choose_order.py in this kitchen's foods (a cooked
\* dish, a chopped one, the 'intentionally bad' one) and a chopped one that
\* pays little more than it costs
VianDishes ==
    { [required |-> <<"NOODLES", "MEAT">>, reward |-> 120, penalty |-> 30],
      [required |-> <<"ONIONS">>, reward |-> 20, penalty |-> 5],
      [required |-> <<"NOODLES">>, reward |-> 5, penalty |-> 0],
      [required |-> <<"ONIONS">>, reward |-> 10, penalty |-> 2] }

VianInit ==
    /\ nav = NavIdle
    /\ \E dish \in [1..VianOrders -> VianDishes],
          expires \in [1..VianOrders -> {40, 110, 200}],
          created \in {0, 5}, active \in BOOLEAN :
           world = [orders |-> [k \in 1..VianOrders |->
                                   [Order(k, dish[k].required, dish[k].reward,
                                          dish[k].penalty, expires[k])
                                       EXCEPT !.is_active = (k < VianOrders \/ active)]
                                   @@ [created_turn |-> IF k = 1 THEN created ELSE 0]],
                    turn |-> 10, money |-> 100]
    /\ bot = [chosen |-> 0]
    /\ cmd = IdleCmd
    /\ log = NoLog
    /\ env = [phase |-> "choose", deny |-> "none", refusals |-> 0, last |-> 0]

\* chosen = bot._choose_order(controller)
VianCall ==
    /\ env.phase = "choose"
    /\ bot' = [chosen |-> vian_choose_order(world.orders, world.turn)]
    /\ env' = [env EXCEPT !.phase = "chosen"]
    /\ UNCHANGED <<nav, world, cmd, log>>

SpecVian == VianInit /\ [][VianCall]_vars

(***************************************************************************)
(* Navigator claims (checked under SpecNav).                               *)
(***************************************************************************)
NavNextCell == <<nav.start[1] + nav.result[1], nav.start[2] + nav.result[2]>>

\* the grid as the next tick sees it once the bot has taken the step
NavStepped == [nav.g EXCEPT !.occ = (nav.g.occ \ {nav.start}) \cup {NavNextCell}]

NavAnswered == nav.pc = "move"

NavCase == NavAnswered /\ ~Adjacent(nav.start, nav.goal)
              /\ PathExists(nav.g, nav.start, nav.goal)

ObstacleFree(g, start) == g.walk = Cells(g) /\ g.occ = {start}

\* C6 (as stated): whenever start is not adjacent to goal and a cell adjacent
\* to goal is reachable, the returned step is one of the eight directions
\* and strictly decreases the Chebyshev distance to the goal.
C6_StepDecreasesChebyshev ==
    NavCase => /\ nav.result \in DirSet
               /\ Cheb(NavNextCell, nav.goal) < Cheb(nav.start, nav.goal)

\* C6 (amended): in that case the returned step is one of the eight
\* directions and shortens the shortest walkable path to a cell adjacent to
\* goal by exactly one move; on a grid without non-walkable or occupied
\* cells it also strictly decreases the Chebyshev distance.
C6_StepShortensWalkablePath ==
    NavCase => /\ nav.result \in DirSet
               /\ PathDist(NavStepped, NavNextCell, nav.goal) + 1
                      = PathDist(nav.g, nav.start, nav.goal)
               /\ ObstacleFree(nav.g, nav.start)
                      => Cheb(NavNextCell, nav.goal) < Cheb(nav.start, nav.goal)

\* a detour: the step is taken around an obstacle and the Chebyshev distance
\* does not decrease
C6_Witness ==
    /\ NavCase
    /\ nav.result \in DirSet
    /\ Cheb(NavNextCell, nav.goal) >= Cheb(nav.start, nav.goal)
    /\ PathDist(nav.g, nav.start, nav.goal) >= 3

\* C7 (as stated): the 'unreachable' result (None) is returned exactly when
\* no walkable path from start to a cell adjacent to goal exists; 'already
\* adjacent' is distinguishable from it.
C7_NoneIffNoPath ==
    NavAnswered => (nav.result = NoMove <=> ~PathExists(nav.g, nav.start, nav.goal))

\* C7 (amended): None is returned exactly when start is already adjacent to
\* goal or no walkable path to a cell adjacent to goal exists; the two cases
\* share the one result, and a step is returned in every other case.
C7_NoneIffAdjacentOrNoPath ==
    NavAnswered => (nav.result = NoMove <=>
                       (Adjacent(nav.start, nav.goal)
                           \/ ~PathExists(nav.g, nav.start, nav.goal)))

\* the frontier is exhausted: start is not adjacent and is walled in
C7_Witness ==
    /\ NavAnswered
    /\ ~Adjacent(nav.start, nav.goal)
    /\ ~PathExists(nav.g, nav.start, nav.goal)
    /\ nav.result = NoMove

\* the cells around start that a step must not lead into
Blocked(g, start) ==
    {p \in {<<start[1] + d[1], start[2] + d[2]>> : d \in DirSet} :
        ~InBounds(g, p) \/ p \notin g.walk \/ p \in g.occ}

\* C26: bfs_to_adjacent never returns a step that leads from start into a
\* cell that is out of bounds, not walkable, or occupied by another agent
\* of the team.
C26_StepEntersFreeCell ==
    (NavAnswered /\ nav.result # NoMove) =>
        /\ nav.result \in DirSet
        /\ InBounds(nav.g, NavNextCell)
        /\ NavNextCell \in nav.g.walk
        /\ NavNextCell \notin nav.g.occ

\* a step is returned although the cell straight towards the goal is
\* not walkable or holds another agent
C26_Witness ==
    /\ NavAnswered
    /\ nav.result # NoMove
    /\ \E p \in Blocked(nav.g, nav.start) :
          /\ InBounds(nav.g, p)
          /\ Cheb(p, nav.goal) < Cheb(nav.start, nav.goal)
    /\ \E p \in Blocked(nav.g, nav.start) : p \in nav.g.occ
    /\ \E p \in Blocked(nav.g, nav.start) : InBounds(nav.g, p) /\ p \notin nav.g.walk

(***************************************************************************)
(* Executor claims (checked under Spec).                                   *)
(***************************************************************************)
\* the collaborator has honoured every request so far
Cooperative == env.deny = "none" /\ env.refusals = MaxRefusals

\* one open order for one non-cooking item; one shop, one counter, one
\* submit tile, no box; ample funds, no deadline pressure
ScenarioA ==
    /\ world.lay = 1
    /\ Len(world.orders) = 1
    /\ cooking_count(world.orders[1]) = 0
    /\ Cooperative

\* C1: in scenario A the compiled plan runs to completion within a bounded
\* number of ticks and the order becomes fulfilled; the plan is never
\* aborted as stuck.
C1_ScenarioAPlanCompletes ==
    ScenarioA =>
        /\ log.branch # "stuck"
        /\ world.turn >= estimated_turns(world.orders[1]) => world.orders[1].fulfilled

\* C2: whenever FinishCookingCommand observes the pan's food at
\* cooked_stage >= 2, the plan is discarded: the executor aborts the plan
\* and enters Cleaning in that call, and does not advance to the plan's next
\* command.
C2_BurnDiscardsPlan ==
    (log.kind = "FinishCooking" /\ log.seen >= 2) =>
        /\ bot.command_queue = <<>>
        /\ bot.current_order_id = 0
        /\ bot.cleaning_workspace

\* the effect each command kind exists for, read off the world
EffectShown(kind, food) ==
    CASE kind = "BuyIngredient" -> HoldsFood(world) /\ world.holding.name = food
      [] kind \in {"BuyPlate", "PickupPlateFromCounter", "PickupPlateFromBox"}
             -> HoldsPlate(world)
      [] kind = "ChopIngredient" -> HoldsFood(world) /\ world.holding.chopped
      [] kind \in {"CookIngredient", "FinishCooking"}
             -> HoldsFood(world) /\ world.holding.stage = 1
      [] kind = "StartCooking"
             -> \E p \in TilesNamed(world, "COOKER") : PanStage(world, p) >= 0
      [] kind = "AddFoodToPlate"
             -> HoldsPlate(world) /\ Len(world.holding.foods) > log.count_before
      [] kind \in {"PlaceOnCounter", "PlaceInBox", "SubmitOrder"} -> ~Holds(world)
      [] OTHER -> TRUE

\* C3: for every command kind, is_complete is true only when the observed
\* agent/world state shows the command's effect.
C3_CompleteShowsEffect ==
    log.completed => EffectShown(log.kind, log.food)

\* how far a command's state machine has come
Rank(state) ==
    CASE state \in {"-", "waiting"} -> 0
      [] state = "navigating" -> 1
      [] state = "placing" -> 2
      [] state \in {"chopping", "cooking", "adding"} -> 3
      [] state = "picking_up" -> 4
      [] state = "done" -> 5

\* C4: after an action request that the collaborator refuses, the issuing
\* command has not advanced its internal state to a later state or to done
\* (giving up after the retry ceiling, which marks the command failed, is
\* not counted as advancing).
C4_RefusedRequestDoesNotAdvance ==
    (log.branch = "exec" /\ log.refused) =>
        \/ Rank(log.after) <= Rank(log.before)
        \/ cmd.failed

\* C5: play_turn issues at most one action request per call, in every mode.
C5_AtMostOneRequest == Len(log.reqs) <= 1

\* the call in which an order is selected and its plan compiled also issues
\* the first command's request
C5_Witness ==
    /\ log.selected # 0
    /\ Len(log.reqs) = 1
    /\ log.aborts > 0

\* C8: no command is executed in a call at whose start the plan's order is
\* not in the active set; the plan is aborted (queue cleared,
\* current_order_id reset) and the cleanup block runs in that same call.
C8_StaleOrderAbortsBeforeStep ==
    log.stale =>
        /\ log.branch = "clean"
        /\ log.kind = "-"
        /\ bot.command_queue = <<>>
        /\ bot.current_order_id = 0

\* the bound order expired while commands of its plan remained
C8_Witness ==
    /\ log.stale
    /\ log.branch = "clean"
    /\ env.phase = "env"
    /\ \E i \in 1..Len(world.orders) :
           ~world.orders[i].is_active /\ ~world.orders[i].fulfilled

\* C9: processed_orders only grows, and an order id in processed_orders
\* never becomes current_order_id.
C9_ProcessedNeverSelected ==
    [][/\ bot.processed_orders \subseteq bot'.processed_orders
       /\ bot'.current_order_id # bot.current_order_id
              => bot'.current_order_id \notin bot.processed_orders]_vars

\* an order is selected while an order whose plan was aborted is still open
C9_Witness ==
    /\ log.selected # 0
    /\ log.aborts > 0
    /\ \E i \in 1..Len(world.orders) :
           /\ world.orders[i].is_active
           /\ world.orders[i].order_id \in bot.processed_orders

\* C10: while cleaning_workspace is true a call neither selects an order
\* nor executes a command, and after a plan abort no order is selected
\* before the cleanup block has run in at least one call.
C10_CleaningBeforeSelection ==
    /\ log.was_cleaning =>
           (log.branch = "clean" /\ log.selected = 0 /\ log.kind = "-")
    /\ log.selected # 0 => ~log.owed

\* an order is selected after a stuck abort and its cleanup
C10_Witness ==
    /\ log.selected # 0
    /\ log.aborts > 0
    /\ ~log.stale
    /\ bot.processed_orders # {}
    /\ bot.cleanup_turns > 0

\* C11: after the last command of a plan reports complete, the executor
\* passes through Cleaning before it selects another order: no order is
\* selected while a finished plan still awaits its cleanup tick.
C11_CleaningAfterCompletion ==
    log.selected # 0 => ~log.unclean

\* a call of play_turn that ran the held-item block of cleanup mode (the
\* call did not leave on the cleanup timeout) or the between-orders disposal
Disposing ==
    /\ env.phase = "bot"
    /\ log'.branch \in {"clean", "dispose"}
    /\ ~(bot.cleaning_workspace /\ bot.cleanup_turns + 1 > max_cleanup_turns)

\* the held item is a plate with no food on it that is not dirty
HeldCleanPlate ==
    /\ world.holding.type = "Plate"
    /\ world.holding.foods = <<>>
    /\ ~world.holding.dirty

\* C12: while disposing of a held item (cleanup mode and between orders),
\* trash is never requested while a clean empty plate is held, place is
\* requested only for a clean empty plate, and every other held item is
\* taken to the trash: trashed when next to the trash tile, else at most a
\* move is requested.
C12_DisposalByItem ==
    [][Disposing =>
          /\ log'.reqs = <<"trash">> => (Holds(world) /\ ~HeldCleanPlate)
          /\ log'.reqs = <<"place">> => HeldCleanPlate
          /\ (Holds(world) /\ ~HeldCleanPlate /\ find_tile(world, "TRASH") # NoLoc)
                 => IF Adjacent(world.pos, find_tile(world, "TRASH"))
                    THEN log'.reqs = <<"trash">>
                    ELSE log'.reqs \in {<<>>, <<"move">>}]_vars

\* a plate with food on it has just been trashed in cleanup mode
C12_Witness ==
    /\ log.branch = "clean"
    /\ log.reqs = <<"trash">>
    /\ ~log.refused
    /\ env.phase = "env"
    /\ HeldCleanPlate

\* C13: take_from_pan is requested by CookIngredientCommand or
\* FinishCookingCommand only in a call in which the pan's food, as the world
\* stood when the call began, is at cooked_stage 1, and that is the stage
\* the command observed; never at stage 0 or >= 2.
C13_TakeOnlyWhenCooked ==
    [][(env.phase = "bot" /\ log'.reqs = <<"take_from_pan">>) =>
          /\ log'.kind \in {"CookIngredient", "FinishCooking"}
          /\ PanStage(world, cmd.loc) = 1
          /\ log'.seen = 1]_vars

\* CookIngredientCommand has just taken the cooked food from the pan
C13_Witness ==
    /\ log.kind = "CookIngredient"
    /\ log.reqs = <<"take_from_pan">>
    /\ log.seen = 1
    /\ env.phase = "env"
    /\ HoldsFood(world) /\ world.holding.stage = 1

(***************************************************************************)
(* Selector claims (checked under SpecSel).                                *)
(***************************************************************************)
\* the order with the given id
OrderOf(w, id) == w.orders[CHOOSE i \in 1..Len(w.orders) : w.orders[i].order_id = id]

\* a call of play_turn in which an order becomes the current order
Binds ==
    /\ env.phase = "bot"
    /\ bot'.current_order_id # 0
    /\ bot'.current_order_id # bot.current_order_id

\* the order that call binds
Bound == OrderOf(world, bot'.current_order_id)

ItemsIn(o, S) == Cardinality({i \in 1..Len(o.required) : o.required[i] \in S})

ChopItems(o) == ItemsIn(o, {n \in FoodNames : can_chop(n)})

CookItems(o) == ItemsIn(o, {n \in FoodNames : can_cook(n)})

\* 25 + 10*items + 7*chop items + cooking term
StatedEstimate(o) ==
    25 + 10 * Len(o.required) + 7 * ChopItems(o)
       + (IF CookItems(o) = 0 THEN 0
          ELSE IF Len(o.required) - CookItems(o) <= 1
          THEN 28 * (CookItems(o) - 1) + 18
          ELSE 28 * CookItems(o))

\* the safety multiplier in force, in hundredths
StatedMultiplier(turn) == IF 500 - turn >= 200 THEN 115 ELSE 130

\* C14: whenever an order becomes the current order, its remaining ticks
\* are at least estimated_turns times the safety multiplier in force (1.15
\* while 500 - turn >= 200, 1.30 otherwise).
C14_SelectedHasTime ==
    [][Binds => (Bound.expires_turn - world.turn) * 100
                    >= StatedEstimate(Bound) * StatedMultiplier(world.turn)]_vars

\* an order is bound in the late phase while the other open order has time
\* for the standard buffer only
C14_Witness ==
    /\ log.selected # 0
    /\ env.phase = "env"
    /\ world.turn = 320
    /\ \E i \in 1..Len(world.orders) :
           LET o == world.orders[i]
           IN  /\ o.order_id # log.selected
               /\ o.order_id \notin bot.processed_orders
               /\ (o.expires_turn - world.turn) * 100 < StatedEstimate(o) * 130

RECURSIVE BuyCosts(_)
\* the sum of the buy costs of the required items
BuyCosts(names) ==
    IF names = <<>> THEN 0 ELSE buy_cost(Head(names)) + BuyCosts(Tail(names))

StatedCost(o) == BuyCosts(o.required) + PlateCost

\* C15: whenever an order becomes the current order, its purchase cost (the
\* buy costs of its required items plus the plate cost) is strictly less
\* than reward + penalty.
C15_SelectedIsProfitable ==
    [][Binds => StatedCost(Bound) < Bound.reward + Bound.penalty]_vars

\* an order is bound in the call that turned the other order down as
\* unprofitable
C15_Witness ==
    /\ log.selected # 0
    /\ env.phase = "env"
    /\ StatedCost(OrderOf(world, log.selected)) + 1
           < OrderOf(world, log.selected).reward + 2
    /\ \E i \in 1..Len(world.orders) :
           LET o == world.orders[i]
           IN  /\ o.order_id # log.selected
               /\ o.order_id \in bot.processed_orders
               /\ StatedCost(o) >= o.reward + o.penalty
               /\ o.expires_turn - world.turn = 150

\* reward + penalty - purchase cost
StatedProfit(o) == o.reward + o.penalty - StatedCost(o)

\* the open orders that survive every check of the order loop
Candidates(b, w) ==
    {w.orders[i] : i \in {j \in 1..Len(w.orders) :
        Considered(b, w.orders[j]) /\ ~Rejected(w.orders[j], w)}}

HasLateBuffer(o, turn) == (o.expires_turn - turn) * 100 >= StatedEstimate(o) * 130

\* C16: in the early/middle phase (500 - turn >= 200) the selected order has
\* the maximum profit / estimated_turns among all surviving candidates; in
\* the late phase it has the minimum estimated_turns among the candidates
\* whose remaining ticks are at least 1.30 * estimated_turns, ties on
\* estimated_turns broken by larger profit.
C16_SelectedIsBestRanked ==
    [][Binds =>
        /\ Bound \in Candidates(bot, world)
        /\ IF 500 - world.turn >= 200
           THEN \A o \in Candidates(bot, world) :
                    StatedProfit(Bound) * StatedEstimate(o)
                        >= StatedProfit(o) * StatedEstimate(Bound)
           ELSE /\ HasLateBuffer(Bound, world.turn)
                /\ \A o \in Candidates(bot, world) :
                       HasLateBuffer(o, world.turn) =>
                           \/ StatedEstimate(Bound) < StatedEstimate(o)
                           \/ /\ StatedEstimate(Bound) = StatedEstimate(o)
                              /\ StatedProfit(Bound) >= StatedProfit(o)]_vars

\* in the late phase the second order of the list is bound although the
\* first, which also has the late buffer, earns more per turn
C16_Witness ==
    /\ log.selected = 2
    /\ env.phase = "env"
    /\ world.turn = 320
    /\ bot.processed_orders = {}
    /\ HasLateBuffer(world.orders[1], 320)
    /\ StatedEstimate(world.orders[2]) < StatedEstimate(world.orders[1])
    /\ StatedProfit(world.orders[1]) * StatedEstimate(world.orders[2])
           > StatedProfit(world.orders[2]) * StatedEstimate(world.orders[1])

\* the checks the selector turns an order down for, at the given turn
FailsCheck(o, turn, w) ==
    \/ (o.expires_turn - turn) * 100 < StatedEstimate(o) * StatedMultiplier(turn)
    \/ CookItems(o) > 0 /\ ~has_accessible_tile_type(w, "COOKER", w.pos)
    \/ ChopItems(o) > 0 /\ ~has_accessible_tile_type(w, "COUNTER", w.pos)
    \/ StatedCost(o) >= o.reward + o.penalty

\* a call of play_turn whose selection block ran and bound no order: every
\* order it evaluated was turned down
TurnsAllDown ==
    /\ env.phase = "bot"
    /\ log'.evaluated # {}
    /\ bot'.current_order_id = 0

\* C17: an order that the selector rejects for failing a feasibility or
\* profitability check (too little remaining time under the safety
\* multiplier in force, unreachable cooker or counter, or cost >= reward +
\* penalty) is added to processed_orders in that tick and is not evaluated
\* again in any later tick.
C17_RejectedIsProcessed ==
    [][TurnsAllDown =>
          \A id \in log'.evaluated :
              FailsCheck(OrderOf(world, id), world.turn, world) =>
                  /\ id \in bot'.processed_orders
                  /\ id \notin log.evaluated]_vars

TimeInfeasible(o, turn) ==
    (o.expires_turn - turn) * 100 < StatedEstimate(o) * StatedMultiplier(turn)

\* selection time with empty hands: two open orders, neither processed, the
\* first passing every check and the second without the time it needs
ScenarioD(good, bad) ==
    /\ env.phase = "bot"
    /\ bot.current_order_id = 0 /\ bot.command_queue = <<>>
    /\ ~bot.cleaning_workspace /\ bot.processed_orders = {}
    /\ ~Holds(world)
    /\ Len(world.orders) = 2
    /\ \A i \in 1..2 : world.orders[i].is_active
    /\ ~FailsCheck(world.orders[good], world.turn, world)
    /\ TimeInfeasible(world.orders[bad], world.turn)

\* C18 (scenario D): with two orders open at selection time and empty
\* hands, one passing every time, reachability and profit check and one
\* whose remaining time is infeasible, the selector binds the feasible order
\* whatever the rewards and the positions in the list; never the infeasible
\* one, never none.
C18_FeasibleOrderIsBound ==
    [][\A good, bad \in 1..2 :
          ScenarioD(good, bad) =>
              bot'.current_order_id = world.orders[good].order_id]_vars

\* the feasible low-reward order, second in the list, is bound while the
\* first order pays more and has no time left for it
C18_Witness ==
    /\ log.selected = 2
    /\ env.phase = "env"
    /\ bot.current_order_id = 2
    /\ world.orders[2].reward < world.orders[1].reward
    /\ TimeInfeasible(world.orders[1], world.turn)
    /\ ~FailsCheck(world.orders[2], world.turn, world)
    /\ world.orders[1].order_id \in bot.processed_orders

(***************************************************************************)
(* Executor claims on retries and progress (checked under Spec)            *)
(***************************************************************************)
RetryKinds == {"ChopIngredient", "PlaceOnCounter", "PickupPlateFromCounter",
               "PlaceInBox", "AddFoodToPlate"}

\* the collaborator refuses every request of one kind and nothing else
RefusesOneKind == env.deny # "none" /\ env.refusals = MaxRefusals

\* C19: for every command with a retry counter (ChopIngredient,
\* PlaceOnCounter, PickupPlateFromCounter, PlaceInBox, AddFoodToPlate), if
\* the collaborator silently refuses every request of one kind, the command
\* repeats that request at most max_retries + 1 times and then escalates;
\* its retries counter never exceeds max_retries + 1.
C19_RetriesBounded ==
    (RefusesOneKind /\ log.branch = "exec" /\ ~log.completed /\ log.kind \in RetryKinds)
        => cmd.retries <= max_retries(log.kind) + 1

\* C20: every command kind records a progress fingerprint on each execute,
\* and any command whose (internal state, position, holding) is unchanged
\* for more than 20 consecutive executes reports is_stuck() = true; this
\* holds for SubmitOrder, CookIngredient, StartCooking, FinishCooking,
\* PlaceInBox and PickupPlateFromBox as well as for the buy, chop, place
\* and pickup commands.
C20_UnchangedCommandIsStuck ==
    (log.branch = "exec" /\ ~log.completed)
        => /\ cmd.last_state # <<>>
           /\ log.still > StuckLimit + 1 => is_stuck(cmd, log.kind)

(***************************************************************************)
(* Long-run claims (checked under FairSpec).                               *)
(***************************************************************************)
StatedCeiling(kind) ==
    CASE kind \in {"BuyIngredient", "BuyPlate"} -> 30
      [] kind \in {"ChopIngredient", "PlaceOnCounter", "PickupPlateFromCounter"} -> 40
      [] kind = "AddFoodToPlate" -> 50
      [] kind = "FinishCooking" -> 80
      [] kind = "CookIngredient" -> 150
      [] OTHER -> 100

\* the plan of the call that bound it has ended: its last command
\* completed, or it was aborted (stuck command, order no longer active)
PlanEnded == log.finished \/ log.branch = "stuck" \/ log.stale

\* C21: whatever the collaborator does, every command either reports
\* complete or reports stuck after at most max_turns + 1 executes (30 for
\* buy, 40 for chop / place-on-counter / pickup-plate-from-counter, 50 for
\* add-to-plate, 80 for finish-cook, 150 for cook, 100 otherwise), so every
\* plan eventually completes or is aborted.
C21_CommandsAndPlansEnd ==
    /\ [](~NoCommands(bot) =>
             cmd.turn_count <= StatedCeiling(current_command(bot).kind) + 1)
    /\ (log.selected # 0) ~> PlanEnded

\* a command has run max_turns + 1 times without completing, without
\* failing and without the fingerprint counter passing its limit
C21_Witness ==
    /\ ~NoCommands(bot)
    /\ cmd.turn_count = StatedCeiling(current_command(bot).kind) + 1
    /\ cmd.stuck_counter <= StuckLimit
    /\ ~cmd.failed
    /\ log.branch = "exec" /\ ~log.completed

(***************************************************************************)
(* Planner claims (checked under SpecPlan).                                *)
(***************************************************************************)
\* build_commands_for_order has returned
Planned == env.phase = "plan"

PlanOrder == world.orders[1]

Plan == bot.command_queue

KindsAt(q, K) == {i \in 1..Len(q) : q[i].kind \in K}

\* the position of the next BuyIngredient after position i, or past the end
NextBuy(q, i) ==
    LET later == {j \in KindsAt(q, {"BuyIngredient"}) : j > i}
    IN  IF later = {} THEN Len(q) + 1
        ELSE CHOOSE j \in later : \A k \in later : j <= k

\* the item bought at position i is (chopped,) cooked with CookIngredient
\* and added to the plate before the next item is bought
CookedBeforeNextBuy(q, i) ==
    \E c, a \in (i + 1)..(NextBuy(q, i) - 1) :
        /\ c < a
        /\ q[c].kind = "CookIngredient"
        /\ q[a].kind = "AddFoodToPlate" /\ q[a].food = q[i].food
        /\ can_chop(q[i].food) =>
               \E h \in (i + 1)..(c - 1) : q[h].kind = "ChopIngredient"

StrictlySequential(q) ==
    /\ KindsAt(q, {"StartCooking", "FinishCooking"}) = {}
    /\ \A i \in KindsAt(q, {"BuyIngredient"}) :
           can_cook(q[i].food) => CookedBeforeNextBuy(q, i)

CountersOn(lay) == Cardinality({p \in MapCells(lay) : tile_name(lay, p) = "COUNTER"})

BoxesOn(lay) == Cardinality({p \in MapCells(lay) : tile_name(lay, p) = "BOX"})

\* C22 as stated: for every order with two or more items that need
\* cooking, the compiled plan is strictly sequential: no StartCooking /
\* FinishCooking, and every cooking item is bought, (chopped,) cooked with
\* CookIngredient and added to the plate before the next item is bought.
C22_TwoCookingItemsSequential ==
    (Planned /\ CookItems(PlanOrder) >= 2) => StrictlySequential(Plan)

\* C22, amended: for every order with two or more items that need no
\* cooking, and for every order compiled on a map with one counter and a
\* box, the compiled plan is strictly sequential.
C22_TwoPlainItemsSequential ==
    (Planned /\ (\/ Len(PlanOrder.required) - CookItems(PlanOrder) >= 2
                 \/ CountersOn(world.lay) = 1 /\ BoxesOn(world.lay) >= 1))
        => StrictlySequential(Plan)

\* a plan for one cooking item and two plain ones on the two-counter map
C22_Witness ==
    /\ Planned
    /\ world.lay = 2
    /\ CookItems(PlanOrder) = 1
    /\ Len(PlanOrder.required) = 3
    /\ KindsAt(Plan, {"CookIngredient"}) # {}
    /\ StrictlySequential(Plan)

\* the AddFoodToPlate at position a follows a BuyIngredient of its food,
\* with no other add of that food in between, and the chop and cook
\* commands the food needs
PrecededByOwnBuy(q, a) ==
    \E b \in 1..(a - 1) :
        /\ q[b].kind = "BuyIngredient" /\ q[b].food = q[a].food
        /\ \A i \in (b + 1)..(a - 1) :
               ~(q[i].kind = "AddFoodToPlate" /\ q[i].food = q[a].food)
        /\ can_chop(q[a].food) =>
               \E h \in (b + 1)..(a - 1) : q[h].kind = "ChopIngredient"
        /\ can_cook(q[a].food) =>
               \E c \in (b + 1)..(a - 1) :
                   q[c].kind \in {"CookIngredient", "FinishCooking"}

Occurrences(names, f) == Cardinality({i \in 1..Len(names) : names[i] = f})

Adds(q, f) ==
    Cardinality({i \in 1..Len(q) : q[i].kind = "AddFoodToPlate" /\ q[i].food = f})

\* C23: for every order whose required names are known food types and
\* every station layout, the multiset of food types of the plan's
\* AddFoodToPlate commands equals the order's required multiset, each
\* AddFoodToPlate is preceded by a BuyIngredient of the same food type
\* (plus Chop / cook commands when the food needs them), and the plan
\* begins with BuyPlate + staging and ends with a plate pickup followed by
\* SubmitOrder.
C23_PlanCoversOrder ==
    Planned =>
        /\ \A f \in FoodNames : Adds(Plan, f) = Occurrences(PlanOrder.required, f)
        /\ \A a \in KindsAt(Plan, {"AddFoodToPlate"}) :
               Plan[a].food \in FoodNames /\ PrecededByOwnBuy(Plan, a)
        /\ Len(Plan) >= 4
        /\ Plan[1].kind = "BuyPlate"
        /\ Plan[2].kind \in {"PlaceOnCounter", "PlaceInBox"}
        /\ Plan[Len(Plan) - 1].kind \in {"PickupPlateFromCounter", "PickupPlateFromBox"}
        /\ Plan[Len(Plan)].kind = "SubmitOrder"

\* a plan for an order that asks twice for a food that is chopped and
\* cooked, compiled with the parallel strategy
C23_Witness ==
    /\ Planned
    /\ Occurrences(PlanOrder.required, "MEAT") = 2
    /\ Len(PlanOrder.required) = 3
    /\ Adds(Plan, "MEAT") = 2
    /\ KindsAt(Plan, {"StartCooking"}) # {}

\* the plate goes into a box after it is bought and after every add, and
\* comes out of a box before every add and before the submit
StagedInBox(q) ==
    /\ q[2].kind = "PlaceInBox"
    /\ KindsAt(q, {"PickupPlateFromCounter"}) = {}
    /\ \A a \in KindsAt(q, {"AddFoodToPlate"}) :
           q[a - 1].kind = "PickupPlateFromBox" /\ q[a + 1].kind = "PlaceInBox"
    /\ q[Len(q) - 1].kind = "PickupPlateFromBox"

StagedOnCounter(q) ==
    /\ q[2].kind = "PlaceOnCounter"
    /\ KindsAt(q, {"PlaceInBox", "PickupPlateFromBox"}) = {}
    /\ \A a \in KindsAt(q, {"AddFoodToPlate"}) :
           q[a - 1].kind = "PickupPlateFromCounter" /\ q[a + 1].kind = "PlaceOnCounter"
    /\ q[Len(q) - 1].kind = "PickupPlateFromCounter"

StationOf(kind) ==
    CASE kind \in {"BuyIngredient", "BuyPlate"} -> "SHOP"
      [] kind \in {"ChopIngredient", "PlaceOnCounter", "PickupPlateFromCounter",
                   "AddFoodToPlate"} -> "COUNTER"
      [] kind \in {"CookIngredient", "StartCooking", "FinishCooking"} -> "COOKER"
      [] kind \in {"PlaceInBox", "PickupPlateFromBox"} -> "BOX"
      [] OTHER -> "SUBMIT"

\* the map has such stations and the agent is adjacent to none of them
FarFrom(w, name) ==
    /\ TilesNamed(w, name) # {}
    /\ \A t \in TilesNamed(w, name) : ~Adjacent(w.pos, t)

\* C25: for any command that becomes the current command while the agent
\* is not adjacent to the command's target station, is_complete is false
\* after the command's first execute; no command reports complete in a
\* single tick for an interaction that requires movement.
C25_NoSingleTickCompletionFromAfar ==
    [][(/\ env.phase = "bot"
        /\ log'.branch = "exec"
        /\ cmd.turn_count = 0
        /\ FarFrom(world, StationOf(log'.kind)))
           => ~log'.completed]_vars

(***************************************************************************)
(* Long-run claims on what follows an abort (checked under FairSpec).      *)
(***************************************************************************)
\* the call dropped the plan: the bound order expired, or the command was stuck
Aborted == log.stale \/ log.branch = "stuck"

\* the call reached "check for new orders", which it does with empty hands only
Selecting == log.branch = "idle" \/ log.selected # 0

\* cleanup mode lasts max_cleanup_turns calls at most, and as many calls
\* cover the walk to the trash and to a free counter on every map here
AbortSlack == 2 * max_cleanup_turns

\* C27: after any plan abort, whatever item the agent holds at that moment,
\* the executor eventually reaches order selection again with empty hands;
\* it does not stay in Cleaning or in the between-orders disposal branch
\* for the rest of the game (aborts in the last AbortSlack ticks aside).
C27_AbortLeadsToSelection ==
    (Aborted /\ world.turn + AbortSlack <= env.last) ~> Selecting

\* food with cooked_stage >= 2 lies in a pan
BurntInPan ==
    \E p \in DOMAIN world.items :
        /\ world.items[p].type = "Pan"
        /\ world.items[p].name # "-"
        /\ world.items[p].stage >= 2

\* C28: after food has burnt in the pan and the plan has ended, the burnt
\* food is eventually removed from the cooker's pan (to be trashed by
\* Cleaning), so that the cooker is usable for a later order (burns in the
\* last AbortSlack ticks of the game aside).
C28_BurntFoodLeavesPan ==
    (BurntInPan /\ NoCommands(bot) /\ world.turn + AbortSlack <= env.last)
        ~> ~BurntInPan

(***************************************************************************)
(* Planner claim on repeated compilation (checked under SpecPlan).         *)
(***************************************************************************)
\* the kitchen is no longer as it was at the first compilation
Disturbed ==
    \/ world.pos # StartWorld([lay |-> world.lay, orders |-> world.orders]).pos
    \/ world.items # InitialItems(world.lay)

\* C29: build_commands_for_order is deterministic: a second compilation of
\* the same order on the same station layout, whatever has moved in the
\* kitchen meanwhile, yields a command sequence of the same length with the
\* same command kind and food type at every position.
C29_RecompiledPlanIsTheSame ==
    [][(env.phase = "moved") =>
           /\ Len(bot'.command_queue) = Len(bot.command_queue)
           /\ \A i \in 1..Len(bot.command_queue) :
                  /\ bot'.command_queue[i].kind = bot.command_queue[i].kind
                  /\ bot'.command_queue[i].food = bot.command_queue[i].food]_vars

\* a plan compiled for the second time, on a map with one counter and a
\* box, with that counter occupied meanwhile
C29_Witness ==
    /\ Planned
    /\ world.turn = 1
    /\ Disturbed
    /\ CountersOn(world.lay) = 1 /\ BoxesOn(world.lay) >= 1
    /\ \E p \in TilesNamed(world, "COUNTER") : ItemAt(world, p).type # "None"
    /\ Len(PlanOrder.required) >= 2
    /\ StagedInBox(Plan)

(***************************************************************************)
(* Claim on the helpers of claude_bot-tune (checked under SpecTune).       *)
(***************************************************************************)
\* C30: each bot issues at most one action request per play_turn;
\* _move_then_act and _move_or_action never issue a move and a station
\* action for the same bot in the same call.
C30_OneRequestPerCall ==
    /\ Len(nav.issued) <= 1
    /\ ~(\E i, j \in 1..Len(nav.issued) :
            nav.issued[i] = "move" /\ nav.issued[j] \in StationActions)

(***************************************************************************)
(* Executor claims on the hands at selection (checked under Spec).         *)
(***************************************************************************)
\* C32: a new order is bound (current_order_id set and its plan compiled)
\* only in a call in which the agent holds nothing at selection time; while
\* the agent holds an item and no plan is active, the call is spent on
\* getting rid of the item and no order is selected.
C32_BindsWithEmptyHandsOnly ==
    [][(env.phase = "bot") =>
           /\ (log'.selected # 0 \/ log'.branch = "idle")
                  => world.holding.type = "None"
           /\ (world.holding.type # "None"
                   /\ bot.current_command_index >= Len(bot.command_queue))
                  => /\ log'.branch \in {"clean", "dispose"}
                     /\ log'.selected = 0
                     /\ bot'.current_order_id = 0
                     /\ bot'.command_queue = <<>>]_vars

\* a call spent in the between-orders branch with food in hand, after a plan
\* was dropped
C32_Witness ==
    /\ log.branch = "dispose"
    /\ log.aborts > 0
    /\ world.holding.type = "Food"
    /\ bot.current_order_id = 0

(***************************************************************************)
(* Executor claims on the length of Cleaning (checked under Spec).         *)
(***************************************************************************)
\* C34: every Cleaning episode ends within max_cleanup_turns + 1 = 21
\* consecutive calls of play_turn, whatever the map, the held item and the
\* collaborator's responses; cleanup_turns is 0 on every entry into Cleaning.
C34_CleaningEndsInTime ==
    /\ log.episode <= max_cleanup_turns + 1
    /\ (log.episode = max_cleanup_turns + 1) => ~bot.cleaning_workspace
    /\ (bot.cleaning_workspace /\ log.branch # "clean") => bot.cleanup_turns = 0
    /\ (bot.cleaning_workspace /\ log.branch = "clean") => bot.cleanup_turns = log.episode

\* the timeout: the 21st consecutive cleanup call leaves cleanup mode
C34_Witness ==
    /\ log.branch = "clean"
    /\ log.episode = max_cleanup_turns + 1
    /\ ~bot.cleaning_workspace
    /\ bot.cleanup_turns = 0

(***************************************************************************)
(* Executor invariant (checked under Spec).                                *)
(***************************************************************************)
\* C35: at the end of every play_turn, cleaning_workspace implies that
\* command_queue is empty and current_order_id is None; and current_order_id
\* is not None if and only if current_command_index < len(command_queue).
C35_ExecutorInvariant ==
    /\ bot.cleaning_workspace
           => bot.command_queue = <<>> /\ bot.current_order_id = 0
    /\ bot.current_order_id # 0
           <=> bot.current_command_index < Len(bot.command_queue)

\* both sides of the equivalence have been true and are false again: the
\* plan of a bound order was dropped for cleanup mode
C35_Witness ==
    /\ bot.cleaning_workspace
    /\ log.aborts > 0
    /\ bot.processed_orders # {}
    /\ bot.current_order_id = 0
    /\ bot.current_command_index = Len(bot.command_queue)

(***************************************************************************)
(* Selector against planner (checked under SpecPlan).                      *)
(***************************************************************************)
\* the selector's estimate charges the first cook as overlapped with the
\* other preparation (18 ticks instead of 28)
EstimateAssumesOverlap(o) ==
    cooking_count(o) > 0 /\ cooking_turns(o) < cooking_count(o) * 28

\* C36: the selector's tick estimate assumes overlapped (parallel) cooking
\* for an order exactly when build_commands_for_order compiles that order
\* with the StartCooking / FinishCooking strategy on the current layout,
\* one-counter layouts with a box included.
C36_EstimateAgreesWithPlan ==
    Planned => (EstimateAssumesOverlap(PlanOrder)
                   <=> \E i \in 1..Len(Plan) : Plan[i].kind = "StartCooking")

(***************************************************************************)
(* Navigator claim on the length of the path (checked under SpecNav).      *)
(***************************************************************************)
\* C37: whenever bfs_to_adjacent returns a step, that step is the first
\* move of a minimum-length 8-connected path from start to some cell within
\* Chebyshev distance 1 of goal, among the paths that use only in-bounds,
\* walkable cells not occupied by teammates.
C37_StepStartsShortestPath ==
    (NavAnswered /\ nav.result # NoMove) =>
        /\ NavNextCell \in Free(nav.g, nav.start)
        /\ PathExists(nav.g, NavNextCell, nav.goal)
        /\ PathDist(nav.g, NavNextCell, nav.goal)
               = PathDist(nav.g, nav.start, nav.goal) - 1

\* a step is returned while another free neighbour of start would not have
\* brought the bot any nearer
C37_Witness ==
    /\ NavAnswered
    /\ nav.result # NoMove
    /\ PathDist(nav.g, nav.start, nav.goal) >= 2
    /\ \E d \in DirSet :
          LET n == <<nav.start[1] + d[1], nav.start[2] + d[2]>>
          IN  /\ n \in Free(nav.g, nav.start)
              /\ n # NavNextCell
              /\ PathExists(nav.g, n, nav.goal)
              /\ PathDist(nav.g, n, nav.goal) >= PathDist(nav.g, nav.start, nav.goal)

(***************************************************************************)
(* Planner claim on the hands (checked under SpecPlan).  The hands are     *)
(* "empty", "food" or "plate"; every command is taken to have its intended *)
(* effect.                                                                 *)
(***************************************************************************)
\* what the agent must hold when a command of this kind starts
HandsNeeded(kind) ==
    IF kind \in {"BuyPlate", "BuyIngredient", "PickupPlateFromCounter",
                 "PickupPlateFromBox", "FinishCooking"} THEN {"empty"}
    ELSE IF kind \in {"ChopIngredient", "CookIngredient", "StartCooking"} THEN {"food"}
    ELSE IF kind \in {"AddFoodToPlate", "PlaceInBox", "SubmitOrder"} THEN {"plate"}
    ELSE IF kind = "PlaceOnCounter" THEN {"food", "plate"}
    ELSE {}

\* what the agent holds once the command has had its intended effect
HandsAfter(kind, hands) ==
    IF kind \in {"BuyPlate", "PickupPlateFromCounter", "PickupPlateFromBox"} THEN "plate"
    ELSE IF kind \in {"BuyIngredient", "FinishCooking"} THEN "food"
    ELSE IF kind \in {"PlaceOnCounter", "PlaceInBox", "StartCooking", "SubmitOrder"}
    THEN "empty"
    ELSE hands

RECURSIVE HandsFit(_, _, _)
\* every command from position i on starts with the hands it needs
HandsFit(q, i, hands) ==
    IF i > Len(q) THEN TRUE
    ELSE /\ hands \in HandsNeeded(q[i].kind)
         /\ HandsFit(q, i + 1, HandsAfter(q[i].kind, hands))

RECURSIVE HandsAt(_, _)
\* the hands when the command at position i starts
HandsAt(q, i) == IF i = 1 THEN "empty" ELSE HandsAfter(q[i - 1].kind, HandsAt(q, i - 1))

\* C38: in every compiled plan (sequential, parallel and box-staged), if
\* each command has its intended effect, the hands are empty whenever a
\* BuyPlate, BuyIngredient, PickupPlateFromCounter, PickupPlateFromBox or
\* FinishCooking command starts, hold food whenever a ChopIngredient,
\* CookIngredient, StartCooking or ingredient PlaceOnCounter command starts,
\* and hold a plate whenever an AddFoodToPlate, plate-staging or SubmitOrder
\* command starts; the PlaceOnCounter before a pickup of the plate is the
\* ingredient's, the one after AddFoodToPlate or BuyPlate the plate's.
C38_HandsFitEveryCommand ==
    Planned =>
        /\ HandsFit(Plan, 1, "empty")
        /\ \A i \in 2..Len(Plan) :
              Plan[i].kind = "PlaceOnCounter" =>
                  IF Plan[i - 1].kind \in {"AddFoodToPlate", "BuyPlate"}
                  THEN HandsAt(Plan, i) = "plate"
                  ELSE HandsAt(Plan, i) = "food"

\* a parallel plan: the cooked food is fetched with empty hands after a
\* plain item went onto the plate
C38_Witness ==
    /\ Planned
    /\ \E i \in 2..Len(Plan) :
          /\ Plan[i].kind = "FinishCooking"
          /\ Plan[i - 1].kind = "PlaceOnCounter"
          /\ HandsAt(Plan, i) = "empty"
    /\ \E i \in 1..Len(Plan) : Plan[i].kind = "ChopIngredient"

(***************************************************************************)
(* Executor claim on the items handled by Cleaning (checked under Spec).   *)
(***************************************************************************)
\* C39: within one Cleaning episode the agent never picks up from a COUNTER
\* or BOX an item that it placed on a COUNTER or BOX earlier in the same
\* episode; each station item is handled at most once.
C39_CleaningTakesNothingItPlaced ==
    (log.branch = "clean" /\ log.took # NoLoc) => log.took \notin log.put

(***************************************************************************)
(* Claims on the order assignment of claude_bot-tune (checked under        *)
(* SpecTeam).                                                              *)
(***************************************************************************)
\* the order with this id
TeamOrder(id) == CHOOSE o \in {world.orders[k] : k \in 1..Len(world.orders)} : o.order_id = id

\* the bots that this play_turn bound to an order
NewlyBound == {i \in DOMAIN bot.bot_orders :
                  bot'.bot_orders[i] # 0 /\ bot'.bot_orders[i] # bot.bot_orders[i]}

\* C31: a bot is never bound to an order that _choose_order rejects: one
\* whose cost (ingredients plus plate) >= reward + penalty, whose remaining
\* ticks are below the estimated ticks times the buffer multiplier, whose
\* cost exceeds the team money, or that is in completed_orders.
C31_BoundOrderIsAccepted ==
    [][(env.phase = "team") =>
           \A i \in NewlyBound :
               /\ tune_accepts(TeamOrder(bot'.bot_orders[i]), world.turn, world.money)
               /\ bot'.bot_orders[i] \notin bot'.completed_orders]_vars

\* C40: at the end of every play_turn no two bots are bound to the same
\* order id (bot_orders is injective on its non-None values).
C40_NoOrderBoundTwice ==
    \A i, j \in DOMAIN bot.bot_orders :
        (i # j /\ bot.bot_orders[i] # 0) => bot.bot_orders[i] # bot.bot_orders[j]

\* all bots are at work, on different orders, after one of them completed an
\* order and took up another
C40_Witness ==
    /\ env.phase = "teamenv"
    /\ \A i \in DOMAIN bot.bot_orders : bot.bot_orders[i] # 0
    /\ bot.completed_orders # {}
    /\ Cardinality({bot.bot_orders[i] : i \in DOMAIN bot.bot_orders}) = Len(bot.bot_orders)

(***************************************************************************)
(* Claim on the order choice of codex_vian (checked under SpecVian).       *)
(***************************************************************************)
\* the active orders that pass the time checks and cost less than they pay
VianProfitable ==
    {k \in 1..Len(world.orders) :
        /\ world.orders[k].is_active
        /\ vian_has_time(world.orders[k], world.turn)
        /\ ingredient_cost(world.orders[k]) < total_value(world.orders[k])}

\* C33: whenever at least one active order that passes the time checks is
\* profitable (cost < reward + penalty), the order _choose_order returns is
\* profitable: an unprofitable order never outranks a profitable one.
C33_ProfitableOrderWins ==
    (env.phase = "chosen" /\ VianProfitable # {}) =>
        \E k \in VianProfitable : world.orders[k].order_id = bot.chosen

\* the 'intentionally bad' order passes the time checks, comes first in the
\* list and has the higher adjusted reward, and a profitable one is returned
C33_Witness ==
    /\ env.phase = "chosen"
    /\ \E k \in VianProfitable : world.orders[k].order_id = bot.chosen /\ k > 1
    /\ 1 \notin VianProfitable
    /\ vian_has_time(world.orders[1], world.turn)
    /\ vian_sort_key(world.orders[1])[2] < vian_sort_key(world.orders[bot.chosen])[2]
====
